---- MODULE Spec2Model ----
(***************************************************************************)
(* A model of kitty's scroll mode (src/kitty/scroll_mode.py): the modal    *)
(* NAVIGATE / SEARCH / SELECT state machine of class ScrollMode, together   *)
(* with the part of the Screen it drives (scroll offset, pause flag,        *)
(* marker, scroll cursor and scroll selection).                             *)
(*                                                                           *)
(* A line of text is a sequence of one-character strings.  "W" stands for   *)
(* a wide (east-asian width W/F) letter such as U+3042, which takes two     *)
(* cells; every other character takes one cell.                             *)
(***************************************************************************)
EXTENDS Integers, Sequences, FiniteSets, TLC

\* ---------------------------------------------------------------- bounds

\* screen.columns of the screens the model starts from
Columns == 3
\* screen.lines of the screens the model starts from
Lines == 2
\* screen.historybuf.count of the screens the model starts from
HistCount == 1
\* longest search query the model types
MaxQuery == 2
\* screen.lines of the screens the mouse is dragged over
TallLines == 3
\* screen.historybuf.count of the screens the mouse is dragged over
TallHist == 2

\* ------------------------------------------------------------ small helpers

Min2(a, b) == IF a <= b THEN a ELSE b

Max2(a, b) == IF a >= b THEN a ELSE b

SetMin(S) == CHOOSE x \in S : \A y \in S : x <= y

SetMax(S) == CHOOSE x \in S : \A y \in S : x >= y

\* Python's max(lo, min(v, hi))
Clamp(v, lo, hi) == Max2(lo, Min2(v, hi))

\* text[a:b] of Python, 0-based, a and b already within 0..len
Slice(text, a, b) == IF b <= a THEN << >> ELSE SubSeq(text, a + 1, b)

\* ------------------------------------------------------------ characters

WideChars == {"W"}

SpaceChars == {" "}

\* str.isalnum() over the model's alphabet
AlnumChars == {"q", "Q", "b", "W"}

\* get_options().select_by_word_characters
word_chars == {"_"}

\* str.lower() of one character
LowerChar(ch) == IF ch = "Q" THEN "q" ELSE ch

\* str.lower()
Lower(text) == [i \in 1..Len(text) |-> LowerChar(text[i])]

char_width(ch) == IF ch \in WideChars THEN 2 ELSE 1

char_class(ch) ==
    IF ch \in SpaceChars THEN 0
    ELSE IF ch \in AlnumChars \/ ch \in word_chars THEN 1
    ELSE 2

\* str.rstrip()
RECURSIVE RStrip(_)
RStrip(text) ==
    IF text # << >> /\ text[Len(text)] \in SpaceChars
    THEN RStrip(SubSeq(text, 1, Len(text) - 1))
    ELSE text

\* the loop of _cell_to_char_idx from index idx (0-based) with `cell` cells
\* already walked
RECURSIVE CellToCharIdxFrom(_, _, _, _)
CellToCharIdxFrom(text, cell_x, idx, cell) ==
    IF idx >= Len(text) THEN Len(text)
    ELSE IF cell >= cell_x THEN idx
    ELSE CellToCharIdxFrom(text, cell_x, idx + 1, cell + char_width(text[idx + 1]))

cell_to_char_idx(text, cell_x) == CellToCharIdxFrom(text, cell_x, 0, 0)

\* the loop of _snap_cell_x over a line's text from index idx
RECURSIVE SnapFrom(_, _, _, _)
SnapFrom(text, cell_x, idx, cell) ==
    IF idx >= Len(text) THEN cell_x
    ELSE IF cell_x < cell + char_width(text[idx + 1]) THEN cell
    ELSE SnapFrom(text, cell_x, idx + 1, cell + char_width(text[idx + 1]))

SnapText(text, cell_x) == SnapFrom(text, cell_x, 0, 0)

\* whether query q occurs in text at 0-based index i
OccursAt(text, q, i) ==
    /\ i >= 0
    /\ i + Len(q) <= Len(text)
    /\ \A j \in 1..Len(q) : text[i + j] = q[j]

\* str.find(q, start): the lowest index >= start, or -1
Find(text, q, start) ==
    LET c == {i \in start..(Len(text) - Len(q)) : OccursAt(text, q, i)}
    IN IF c = {} THEN -1 ELSE SetMin(c)

\* str.rfind(q, start, end): the highest index within text[start:end], or -1
RFind(text, q, start, end) ==
    LET c == {i \in start..(Min2(end, Len(text)) - Len(q)) : OccursAt(text, q, i)}
    IN IF c = {} THEN -1 ELSE SetMax(c)

\* _PROMPT_PATTERN.search(text) over the model's alphabet: a prompt glyph
\* anywhere, or one of $ # % > followed only by whitespace up to the end
PromptGlyphs == {"PROMPT_GLYPH"}

PromptEndChars == {"$", "#", "%", ">"}

PromptMatch(text) ==
    \E i \in 1..Len(text) :
        \/ text[i] \in PromptGlyphs
        \/ /\ text[i] \in PromptEndChars
           /\ \A j \in (i + 1)..Len(text) : text[j] \in SpaceChars

\* ---------------------------------------------------------------- screen

\* fast_data_types.SCROLL_FULL, the amount that means "all of the history"
SCROLL_FULL == -999997

\* a line of n cells that alternates q and Q
NarrowLine(n) == [i \in 1..n |-> IF i % 2 = 1 THEN "q" ELSE "Q"]

\* The texts of the screen, by content and number of columns.
\* Content 1: a prompt line, a line that a wide character starts and that
\* fills the row, and a full row of narrow characters in both cases.
\* Content 2: words, punctuation and blanks, with a soft-wrapped pair.
Contents == {1, 2}

\* Content 3, the screen of a search with two matches: `Qb` occurs at the
\* start of the first live line and at column 1 of the second, and no other
\* line holds a `q` or a `b`.  Its newest history line is the wrapped end of
\* a longer line, and its first live line starts a new one.
\* Content 4, a screen that is mostly blank: one word with a blank on each
\* side on the first live line, blank and empty lines above and below it.

\* str(screen.historybuf.line(i)): i = 0 is the newest history line
historybuf_line(c, cols, i) ==
    IF c = 1 THEN
        IF i = 0 THEN <<"q", "$">>
        ELSE IF i = 1 THEN <<" ", "q">>
        ELSE << >>
    ELSE IF c = 2 THEN
        IF i = 0 THEN <<"q", ".", "b">>
        ELSE IF i = 1 THEN <<"$", " ">>
        ELSE << >>
    ELSE IF c = 3 THEN
        IF i = 0 THEN <<".", " ", ".">>
        ELSE << >>
    ELSE
        IF i = 0 THEN <<" ", " ">>
        ELSE << >>

\* str(screen.linebuf.line(i)) of the main buffer
main_linebuf_line(c, cols, i) ==
    IF c = 1 THEN
        IF i = 0 THEN <<"W">> \o NarrowLine(cols - 2)
        ELSE IF i = 1 THEN NarrowLine(cols)
        ELSE << >>
    ELSE IF c = 2 THEN
        IF i = 0 THEN <<"q", "b">>
        ELSE IF i = 1 THEN <<" ", "W">>
        ELSE << >>
    ELSE IF c = 3 THEN
        IF i = 0 THEN <<"Q", "b">>
        ELSE IF i = 1 THEN <<".", "Q", "b">>
        ELSE << >>
    ELSE
        IF i = 0 THEN <<" ", "q", " ">>
        ELSE IF i = 1 THEN <<" ">>
        ELSE << >>

\* str(screen.linebuf.line(i)) of the alternate buffer
alt_linebuf_line(c, cols, i) ==
    IF c = 1 THEN
        IF i = 0 THEN NarrowLine(cols - 2) \o <<"W">>
        ELSE IF i = 1 THEN <<"b", " ", "q">>
        ELSE << >>
    ELSE IF c = 2 THEN
        IF i = 0 THEN <<"q", " ", ".">>
        ELSE << >>
    ELSE IF c = 3 THEN
        IF i = 0 THEN <<"Q", "b">>
        ELSE IF i = 1 THEN <<".", "Q", "b">>
        ELSE << >>
    ELSE
        IF i = 0 THEN <<" ", "q", " ">>
        ELSE IF i = 1 THEN <<" ">>
        ELSE << >>

\* screen.historybuf.is_continued(i)
historybuf_is_continued(c, i) == c \in {2, 3} /\ i = 0

\* screen.linebuf.is_continued(i)
linebuf_is_continued(c, main, i) == c = 2 /\ main /\ i = 0

\* the positions the terminal's own cursor has when the mode is entered
ScreenCursors == {[x |-> 0, y |-> Lines - 1]}

\* ----------------------------------------------------------------- state

VARIABLES
    \* ScrollMode object
    active, state, window, tab_manager, is_alt_screen,
    cursor_abs, cursor_x, search_query, search_backwards,
    sel_start_abs, sel_start_x, sel_mode, sel_prev_mode,
    drag_active, drag_started, drag_press_y, drag_press_x,
    \* Screen of the window
    columns, lines, history_count, content, main_linebuf, screen_cursor,
    scrolled_by, scroll_pause, marker, has_selection,
    scroll_cursor, scroll_selection

vars == <<active, state, window, tab_manager, is_alt_screen,
          cursor_abs, cursor_x, search_query, search_backwards,
          sel_start_abs, sel_start_x, sel_mode, sel_prev_mode,
          drag_active, drag_started, drag_press_y, drag_press_x,
          columns, lines, history_count, content, main_linebuf, screen_cursor,
          scrolled_by, scroll_pause, marker, has_selection,
          scroll_cursor, scroll_selection>>

\* The current state as one record, the form the handlers below work on,
\* with what a call of a public entry point gives back: the value it returns
\* (consumed), the texts it hands to set_clipboard_string (clipboard),
\* whether it shows an error (error_shown), the calls it makes that the
\* pause contract orders (log), whether it reads a line of the buffer
\* while the screen is not paused (unpaused_read), and the number of calls
\* of screen.scroll it makes (scroll_calls).
Cur ==
    [active |-> active, state |-> state, window |-> window,
     tab_manager |-> tab_manager, is_alt_screen |-> is_alt_screen,
     cursor_abs |-> cursor_abs, cursor_x |-> cursor_x,
     search_query |-> search_query, search_backwards |-> search_backwards,
     sel_start_abs |-> sel_start_abs, sel_start_x |-> sel_start_x,
     sel_mode |-> sel_mode, sel_prev_mode |-> sel_prev_mode,
     drag_active |-> drag_active, drag_started |-> drag_started,
     drag_press_y |-> drag_press_y, drag_press_x |-> drag_press_x,
     columns |-> columns, lines |-> lines, history_count |-> history_count,
     content |-> content, main_linebuf |-> main_linebuf,
     screen_cursor |-> screen_cursor, scrolled_by |-> scrolled_by,
     scroll_pause |-> scroll_pause, marker |-> marker,
     has_selection |-> has_selection, scroll_cursor |-> scroll_cursor,
     scroll_selection |-> scroll_selection,
     consumed |-> "none", clipboard |-> << >>, error_shown |-> FALSE,
     log |-> << >>, unpaused_read |-> FALSE, scroll_calls |-> 0]

\* the next state is the record t
Becomes(t) ==
    /\ active' = t.active
    /\ state' = t.state
    /\ window' = t.window
    /\ tab_manager' = t.tab_manager
    /\ is_alt_screen' = t.is_alt_screen
    /\ cursor_abs' = t.cursor_abs
    /\ cursor_x' = t.cursor_x
    /\ search_query' = t.search_query
    /\ search_backwards' = t.search_backwards
    /\ sel_start_abs' = t.sel_start_abs
    /\ sel_start_x' = t.sel_start_x
    /\ sel_mode' = t.sel_mode
    /\ sel_prev_mode' = t.sel_prev_mode
    /\ drag_active' = t.drag_active
    /\ drag_started' = t.drag_started
    /\ drag_press_y' = t.drag_press_y
    /\ drag_press_x' = t.drag_press_x
    /\ columns' = t.columns
    /\ lines' = t.lines
    /\ history_count' = t.history_count
    /\ content' = t.content
    /\ main_linebuf' = t.main_linebuf
    /\ screen_cursor' = t.screen_cursor
    /\ scrolled_by' = t.scrolled_by
    /\ scroll_pause' = t.scroll_pause
    /\ marker' = t.marker
    /\ has_selection' = t.has_selection
    /\ scroll_cursor' = t.scroll_cursor
    /\ scroll_selection' = t.scroll_selection

\* no marker: screen.set_marker() without an argument
NoMarker == << >>

\* set_scroll_cursor(0, 0, 0): the scroll cursor hidden
HiddenCursor == [x |-> 0, y |-> 0, visible |-> 0, cw |-> 1]

\* set_scroll_selection(0, 0, 0, 0, 0): no scroll selection
NoSelection == [type |-> 0, sx |-> 0, sy |-> 0, ex |-> 0, ey |-> 0]

\* ScrollMode.__init__
InitMode ==
    /\ active = FALSE
    /\ state = "NAVIGATE"
    /\ window = 0
    /\ tab_manager = FALSE
    /\ is_alt_screen = FALSE
    /\ cursor_abs = 0
    /\ cursor_x = 0
    /\ search_query = << >>
    /\ search_backwards = TRUE
    /\ sel_start_abs = 0
    /\ sel_start_x = 0
    /\ sel_mode = "none"
    /\ sel_prev_mode = "none"
    /\ drag_active = FALSE
    /\ drag_started = FALSE
    /\ drag_press_y = 0
    /\ drag_press_x = 0

\* a screen of cols columns and rows lines with hist lines of history, on
\* the main or the alternate buffer, at the bottom or scrolled back
InitScreen(cols, rows, hist, cs) ==
    /\ columns = cols
    /\ lines = rows
    /\ history_count = hist
    /\ content \in cs
    /\ main_linebuf \in BOOLEAN
    /\ screen_cursor \in ScreenCursors
    /\ scrolled_by \in (IF main_linebuf THEN 0..hist ELSE {0})
    /\ scroll_pause = FALSE
    /\ marker = NoMarker
    /\ has_selection = TRUE
    /\ scroll_cursor = HiddenCursor
    /\ scroll_selection = NoSelection

Init == InitMode /\ InitScreen(Columns, Lines, HistCount, Contents)

\* ------------------------------------------------- buffer view of the mode

total_lines(s) ==
    IF s.window = 0 THEN 0
    ELSE IF s.is_alt_screen THEN s.lines
    ELSE s.history_count + s.lines

\* a variant of _viewport_top that takes every screen for the main one
viewport_top_any_buffer(s) ==
    IF s.window = 0 THEN 0 ELSE s.history_count - s.scrolled_by

\* ScrollMode._viewport_top
viewport_top(s) ==
    IF s.window = 0 THEN 0
    ELSE IF s.is_alt_screen THEN 0
    ELSE s.history_count - s.scrolled_by

\* screen.linebuf.line(i) of the buffer the screen shows; a line outside the
\* buffer reads as empty (the callers catch the IndexError)
linebuf_line(s, i) ==
    IF i < 0 \/ i >= s.lines THEN << >>
    ELSE IF s.main_linebuf THEN main_linebuf_line(s.content, s.columns, i)
    ELSE alt_linebuf_line(s.content, s.columns, i)

get_line_text(s, abs_line) ==
    IF s.window = 0 THEN << >>
    ELSE IF s.is_alt_screen THEN linebuf_line(s, abs_line)
    ELSE IF abs_line < s.history_count
         THEN (IF abs_line < 0 THEN << >>
               ELSE historybuf_line(s.content, s.columns, s.history_count - 1 - abs_line))
         ELSE linebuf_line(s, abs_line - s.history_count)

snap_cell_x(s, abs_line, cell_x) == SnapText(get_line_text(s, abs_line), cell_x)

\* a line of the buffer is read: noted when the screen is not paused
MarkRead(s) == [s EXCEPT !.unpaused_read = @ \/ ~s.scroll_pause]

\* what screen.scroll(amt, upwards) does: it moves scrolled_by within
\* 0..historybuf.count, on the main buffer only
ScrollBy(s, amt, upwards) ==
    LET a == IF amt = SCROLL_FULL THEN s.history_count ELSE Max2(0, amt)
    IN IF ~s.main_linebuf THEN s
       ELSE IF upwards
            THEN [s EXCEPT !.scrolled_by = Min2(@ + a, s.history_count)]
            ELSE [s EXCEPT !.scrolled_by = @ - Min2(a, @)]

\* a call of screen.scroll(amt, upwards), counted in scroll_calls
ScreenScroll(s, amt, upwards) ==
    ScrollBy([s EXCEPT !.scroll_calls = @ + 1], amt, upwards)

\* ------------------------------------------- cursor and viewport management

\* _mark_dirty: a redraw of the tab bar is requested; the model keeps no
\* state of the tab bar
mark_dirty(s) == s

\* the character at index ci of text is a wide one
WideAt(text, ci) == ci < Len(text) /\ char_width(text[ci + 1]) = 2

\* the end of _sync_selection: the rectangle of type sel_type, with its end
\* widened over a wide character (char), the full rows (line) or the columns
\* of anchor and cursor (block)
SelectionTyped(s, sel_type, c_start_x, c_start_vy, c_end_x, c_end_vy, end_line) ==
    [s EXCEPT !.scroll_selection =
        [type |-> sel_type,
         sx |-> IF sel_type = 2 THEN 0
                ELSE IF sel_type = 3 THEN s.sel_start_x ELSE c_start_x,
         sy |-> c_start_vy,
         ex |-> IF sel_type = 2 THEN s.columns - 1
                ELSE IF sel_type = 3 THEN s.cursor_x
                ELSE IF WideAt(end_line, cell_to_char_idx(end_line, c_end_x))
                     THEN c_end_x + 1 ELSE c_end_x,
         ey |-> c_end_vy]]

\* the rectangle _sync_selection hands to set_scroll_selection for a
\* selection from (start_abs, start_x) to (end_abs, end_x), of which a part
\* is in the viewport
SelectionRect(s, start_abs, start_x, end_abs, end_x, vt) ==
    SelectionTyped(s,
        IF s.sel_mode = "line" THEN 2 ELSE IF s.sel_mode = "block" THEN 3 ELSE 1,
        IF start_abs - vt < 0 THEN 0 ELSE start_x,
        IF start_abs - vt < 0 THEN 0 ELSE start_abs - vt,
        IF end_abs - vt >= s.lines THEN s.columns - 1 ELSE end_x,
        IF end_abs - vt >= s.lines THEN s.lines - 1 ELSE end_abs - vt,
        get_line_text(s, end_abs))

\* the selection is ordered, the anchor first or the cursor first, and
\* cleared when no part of it is in the viewport
SelectionOrdered(s, anchor_first, vt) ==
    IF (IF anchor_first THEN s.cursor_abs ELSE s.sel_start_abs) - vt < 0
       \/ (IF anchor_first THEN s.sel_start_abs ELSE s.cursor_abs) - vt >= s.lines
    THEN [s EXCEPT !.scroll_selection = NoSelection]
    ELSE SelectionRect(s,
             IF anchor_first THEN s.sel_start_abs ELSE s.cursor_abs,
             IF anchor_first THEN s.sel_start_x ELSE s.cursor_x,
             IF anchor_first THEN s.cursor_abs ELSE s.sel_start_abs,
             IF anchor_first THEN s.cursor_x ELSE s.sel_start_x,
             vt)

sync_selection(s) ==
    IF s.window = 0 THEN s
    ELSE IF s.sel_mode = "none" \/ s.state # "SELECT"
    THEN [s EXCEPT !.scroll_selection = NoSelection]
    ELSE SelectionOrdered(s,
             \/ s.sel_start_abs < s.cursor_abs
             \/ (s.sel_start_abs = s.cursor_abs /\ s.sel_start_x <= s.cursor_x),
             viewport_top(s))

\* the part of _sync_cursor before _sync_selection: the cursor of the
\* renderer is put at the row of the cursor line in the viewport, with the
\* width of the character at index ci of text
CursorShown(s, text, ci) ==
    [MarkRead(s) EXCEPT !.scroll_cursor =
        [x |-> s.cursor_x,
         y |-> Clamp(s.cursor_abs - viewport_top(s), 0, s.lines - 1),
         visible |-> 1,
         cw |-> IF ci < Len(text) THEN char_width(text[ci + 1]) ELSE 1]]

\* the character under the cursor is looked up in the text of its line
CursorShownIn(s, text) == CursorShown(s, text, cell_to_char_idx(text, s.cursor_x))

sync_cursor(s) ==
    IF s.window = 0 THEN s
    ELSE sync_selection(CursorShownIn(s, get_line_text(s, s.cursor_abs)))

\* a variant of the clamp that leaves the line alone
ClampCursor_column_only(s) ==
    [s EXCEPT !.cursor_x = Clamp(@, 0, s.columns - 1)]

\* the clamp of _ensure_cursor_visible
ClampCursor(s) ==
    [s EXCEPT !.cursor_abs = Clamp(@, 0, total_lines(s) - 1),
              !.cursor_x = Clamp(@, 0, s.columns - 1)]

\* a variant of the scroll that leaves the viewport where it is
ScrollToCursor_stay(c, vt) == c

\* the scroll of _ensure_cursor_visible, for the clamped record c and the
\* top line vt of its viewport
ScrollToCursor(c, vt) ==
    IF c.is_alt_screen \/ (vt <= c.cursor_abs /\ c.cursor_abs <= vt + c.lines - 1)
    THEN c
    ELSE ScreenScroll(c,
             IF c.cursor_abs < vt THEN vt - c.cursor_abs
             ELSE c.cursor_abs - (vt + c.lines - 1),
             c.cursor_abs < vt)

\* the viewport of the clamped record is read
ScrollClamped(c) == ScrollToCursor(c, viewport_top(c))

ensure_cursor_visible(s) ==
    IF s.window = 0 THEN s ELSE ScrollClamped(ClampCursor(s))

\* a variant of the end of _move_cursor that keeps the snapped column
MoveSnapped_no_advance(m, old_x, dx, snapped, text, ci) ==
    mark_dirty(sync_cursor([MarkRead(m) EXCEPT !.cursor_x = snapped]))

\* the end of _move_cursor: the column is the snapped one, or, when a move
\* to the right did not get past old_x, old_x and the width of the character
\* at index ci of text
MoveSnapped(m, old_x, dx, snapped, text, ci) ==
    mark_dirty(sync_cursor(
        [MarkRead(m) EXCEPT !.cursor_x =
            IF dx > 0 /\ snapped <= old_x /\ ci < Len(text)
            THEN old_x + char_width(text[ci + 1])
            ELSE snapped]))

\* the line of the moved cursor is read
MoveOnText(m, old_x, dx, text) ==
    MoveSnapped(m, old_x, dx, SnapText(text, m.cursor_x), text,
                cell_to_char_idx(text, old_x))

\* _move_cursor after _ensure_cursor_visible
MoveVisible(m, old_x, dx) == MoveOnText(m, old_x, dx, get_line_text(m, m.cursor_abs))

move_cursor(s, dy, dx) ==
    MoveVisible(ensure_cursor_visible(
                    [s EXCEPT !.cursor_abs = @ + dy, !.cursor_x = @ + dx]),
                s.cursor_x, dx)

\* _move_cursor_to after _ensure_cursor_visible
MoveToVisible(m) ==
    mark_dirty(sync_cursor(
        [MarkRead(m) EXCEPT !.cursor_x = snap_cell_x(m, m.cursor_abs, m.cursor_x)]))

move_cursor_to(s, abs_line, x) ==
    MoveToVisible(ensure_cursor_visible(
                      [s EXCEPT !.cursor_abs = abs_line, !.cursor_x = x]))

\* ----------------------------------------------------------------- search

apply_search_marker(s) ==
    IF s.window = 0 \/ s.search_query = << >> THEN s
    ELSE [s EXCEPT !.marker = Lower(s.search_query)]

\* a variant that leaves the marker on the screen
clear_search_marker_keep(s) == s

clear_search_marker(s) ==
    IF s.window = 0 THEN s ELSE [s EXCEPT !.marker = NoMarker]

\* the lower-cased text of a line, as the searches read it
LowerLine(s, abs_line) == Lower(get_line_text(s, abs_line))

RECURSIVE LineMatchesFrom_no_overlap(_, _, _, _)
\* a variant of the loop that goes on after the end of a match
LineMatchesFrom_no_overlap(text, q, abs_line, col) ==
    IF col < 0 THEN << >>
    ELSE <<(<<abs_line, col>>)>>
         \o LineMatchesFrom_no_overlap(text, q, abs_line, Find(text, q, col + Len(q)))

RECURSIVE LineMatchesFrom(_, _, _, _)
\* the `while True` loop of _find_all_matches on one line, col being the
\* column the last find gave: the match is listed and the search goes on
\* one column further
LineMatchesFrom(text, q, abs_line, col) ==
    IF col < 0 THEN << >>
    ELSE <<(<<abs_line, col>>)>>
         \o LineMatchesFrom(text, q, abs_line, Find(text, q, col + 1))

\* the matches of one line, from its first one
LineMatchList(text, q, abs_line) ==
    LineMatchesFrom(text, q, abs_line, Find(text, q, 0))

RECURSIVE MatchesFromLine(_, _)
\* the `for abs_line in range(total)` loop of _find_all_matches
MatchesFromLine(s, abs_line) ==
    IF abs_line >= total_lines(s) THEN << >>
    ELSE LineMatchList(LowerLine(s, abs_line), Lower(s.search_query), abs_line)
         \o MatchesFromLine(s, abs_line + 1)

\* the list of the (abs_line, column) pairs _find_all_matches returns
find_all_matches(s) ==
    IF s.window = 0 \/ s.search_query = << >> THEN << >>
    ELSE MatchesFromLine(s, 0)

\* the line the two scans of a jump end at, the lines of hits being those
\* the scans stop at: first the lines before (backwards) or after the cursor
\* line, nearest first, then the wrap from the far end down to the cursor
\* line; -1 when neither scan stops
ScanPick(before, wrapped, backwards) ==
    IF before # {} THEN (IF backwards THEN SetMax(before) ELSE SetMin(before))
    ELSE IF wrapped # {} THEN (IF backwards THEN SetMax(wrapped) ELSE SetMin(wrapped))
    ELSE -1

ScanLine(hits, cur, backwards) ==
    ScanPick({l \in hits : IF backwards THEN l < cur ELSE l > cur},
             {l \in hits : IF backwards THEN l >= cur ELSE l <= cur},
             backwards)

\* the lines in which the query occurs
MatchingLines(s) ==
    {l \in 0..(total_lines(s) - 1) :
        Find(LowerLine(s, l), Lower(s.search_query), 0) >= 0}

\* the jump to the match of line l, the last one of its text (backwards) or
\* the first one
JumpInText(r, l, text, backwards) ==
    move_cursor_to(r, l,
        IF backwards THEN RFind(text, Lower(r.search_query), 0, Len(text))
        ELSE Find(text, Lower(r.search_query), 0))

\* the jump to line l, or none when no line has a match
JumpToLine(r, l, backwards) ==
    IF l < 0 THEN r ELSE JumpInText(r, l, LowerLine(r, l), backwards)

\* _jump_to_match once the cursor line is searched: col is the match found
\* on it, or -1
JumpFromCol(r, col, backwards) ==
    IF col >= 0 THEN mark_dirty(sync_cursor([r EXCEPT !.cursor_x = col]))
    ELSE JumpToLine(r, ScanLine(MatchingLines(r), r.cursor_abs, backwards), backwards)

\* the match on the cursor line: before the cursor column (backwards) or
\* after it
MatchOnLine(s, text, backwards) ==
    IF backwards THEN RFind(text, Lower(s.search_query), 0, s.cursor_x)
    ELSE Find(text, Lower(s.search_query), s.cursor_x + 1)

jump_to_match(s, backwards) ==
    IF s.window = 0 \/ s.search_query = << >> THEN s
    ELSE JumpFromCol(MarkRead(s),
                     MatchOnLine(s, LowerLine(s, s.cursor_abs), backwards),
                     backwards)

\* _jump_to_nearest_match once the cursor line is searched from the cursor
\* column on: col is the match found, or -1
NearestFromCol(r, col) ==
    IF col = r.cursor_x THEN r
    ELSE IF col >= 0 THEN sync_cursor([r EXCEPT !.cursor_x = col])
    ELSE jump_to_match(r, r.search_backwards)

jump_to_nearest_match(s) ==
    IF s.window = 0 \/ s.search_query = << >> THEN s
    ELSE NearestFromCol(MarkRead(s),
             Find(LowerLine(s, s.cursor_abs), Lower(s.search_query), s.cursor_x))

\* --------------------------------------------------------- prompt jumping

IsPromptLine(s, abs_line) == PromptMatch(get_line_text(s, abs_line))

\* the lines that hold a prompt
PromptLines(s) == {l \in 0..(total_lines(s) - 1) : IsPromptLine(s, l)}

\* the jump to the prompt of line l, or none when no line holds a prompt
PromptTo(r, l) == IF l < 0 THEN r ELSE move_cursor_to(r, l, 0)

jump_to_prompt(s, backwards) ==
    IF s.window = 0 THEN s
    ELSE PromptTo(MarkRead(s), ScanLine(PromptLines(s), s.cursor_abs, backwards))

\* ------------------------------------------------------------ word motion

\* the loop of _line_cells: <<char, cell>> pairs, cut at the last column
RECURSIVE LineCellsFrom(_, _, _, _)
LineCellsFrom(text, cols, idx, cell) ==
    IF idx >= Len(text) \/ cell >= cols THEN << >>
    ELSE << <<text[idx + 1], cell>> >>
         \o LineCellsFrom(text, cols, idx + 1, cell + char_width(text[idx + 1]))

line_cells(s, abs_line) == LineCellsFrom(get_line_text(s, abs_line), s.columns, 0, 0)

\* class of the cell at 0-based position pos
ClassAt(cells, pos) == char_class(cells[pos + 1][1])

\* cell of the cell entry at 0-based position pos
CellAt(cells, pos) == cells[pos + 1][2]

\* the first position whose cell is >= cursor_x, or -1 (the for/else case)
CursorPos(cells, x) ==
    LET c == {i \in 0..(Len(cells) - 1) : CellAt(cells, i) >= x}
    IN IF c = {} THEN -1 ELSE SetMin(c)

\* while pos < len(cells) and class == cls: pos += 1
RECURSIVE SkipClass(_, _, _)
SkipClass(cells, pos, cls) ==
    IF pos < Len(cells) /\ ClassAt(cells, pos) = cls
    THEN SkipClass(cells, pos + 1, cls)
    ELSE pos

\* while pos + 1 < len(cells) and class(cells[pos + 1]) == cls: pos += 1
RECURSIVE GroupEnd(_, _, _)
GroupEnd(cells, pos, cls) ==
    IF pos + 1 < Len(cells) /\ ClassAt(cells, pos + 1) = cls
    THEN GroupEnd(cells, pos + 1, cls)
    ELSE pos

\* while pos > 0 and class(cells[pos - 1]) == cls: pos -= 1
RECURSIVE GroupStart(_, _, _)
GroupStart(cells, pos, cls) ==
    IF pos > 0 /\ ClassAt(cells, pos - 1) = cls
    THEN GroupStart(cells, pos - 1, cls)
    ELSE pos

\* while pos >= 0 and class == 0: pos -= 1
RECURSIVE SkipSpacesBack(_, _)
SkipSpacesBack(cells, pos) ==
    IF pos >= 0 /\ ClassAt(cells, pos) = 0
    THEN SkipSpacesBack(cells, pos - 1)
    ELSE pos

\* no target: the motion returns without moving
NoTarget == <<-1, -1>>

\* a variant of the end of a word motion that goes to the last line of the
\* buffer when there is no target
MoveToTarget_or_last_line(r, target) ==
    IF target = NoTarget THEN move_cursor_to(r, total_lines(r) - 1, 0)
    ELSE move_cursor_to(r, target[1], target[2])

\* the end of a word motion: the cursor moves to the target, if there is one
MoveToTarget(r, target) ==
    IF target = NoTarget THEN r ELSE move_cursor_to(r, target[1], target[2])

RECURSIVE WordEndLoop(_, _, _)

\* one round of the `e` loop on the cells of line_abs, p being the position
\* after the blanks from pos on
WordEndFrom(s, line_abs, pos, cells, p) ==
    IF pos >= Len(cells) \/ p >= Len(cells)
    THEN IF line_abs + 1 >= total_lines(s) THEN NoTarget
         ELSE WordEndLoop(s, line_abs + 1, 0)
    ELSE <<line_abs, CellAt(cells, GroupEnd(cells, p, ClassAt(cells, p)))>>

WordEndIn(s, line_abs, pos, cells) ==
    WordEndFrom(s, line_abs, pos, cells, SkipClass(cells, pos, 0))

\* the `e` loop of _word_move_forward from (line_abs, pos)
WordEndLoop(s, line_abs, pos) == WordEndIn(s, line_abs, pos, line_cells(s, line_abs))

RECURSIVE WordStartLoop(_, _, _)

\* a variant of the `w` loop at the end of a line that never stops at the
\* start of the next line
WordStartNext_past_line_start(s, line_abs, next) ==
    WordStartLoop(s, line_abs + 1, 0)

\* the `w` loop at the end of a line: the next line starts a word, or the
\* loop goes on in it
WordStartNext(s, line_abs, next) ==
    IF next # << >> /\ ClassAt(next, 0) # 0
    THEN <<line_abs + 1, CellAt(next, 0)>>
    ELSE WordStartLoop(s, line_abs + 1, 0)

\* one round of the `w` loop on the cells of line_abs, p2 being the position
\* after the group at pos and the blanks that follow it
WordStartFrom(s, line_abs, pos, cells, p2) ==
    IF pos < Len(cells) /\ p2 < Len(cells) THEN <<line_abs, CellAt(cells, p2)>>
    ELSE IF line_abs + 1 >= total_lines(s) THEN NoTarget
    ELSE WordStartNext(s, line_abs, line_cells(s, line_abs + 1))

WordStartIn(s, line_abs, pos, cells) ==
    WordStartFrom(s, line_abs, pos, cells,
        SkipClass(cells,
                  IF pos < Len(cells) /\ ClassAt(cells, pos) # 0
                  THEN SkipClass(cells, pos, ClassAt(cells, pos))
                  ELSE pos,
                  0))

\* the `w` loop of _word_move_forward from (line_abs, pos)
WordStartLoop(s, line_abs, pos) ==
    WordStartIn(s, line_abs, pos, line_cells(s, line_abs))

\* _word_move_forward from the position pos of the cursor in its line
WordForwardFrom(s, to_end, pos) ==
    MoveToTarget(MarkRead(s),
        IF to_end THEN WordEndLoop(s, s.cursor_abs, pos + 1)
        ELSE WordStartLoop(s, s.cursor_abs, pos))

\* the position of the cursor in the cells of its line, len(cells) when
\* the cursor is past them
WordForwardIn(s, to_end, cells, found) ==
    WordForwardFrom(s, to_end, IF found < 0 THEN Len(cells) ELSE found)

WordForwardOn(s, to_end, cells) ==
    WordForwardIn(s, to_end, cells, CursorPos(cells, s.cursor_x))

word_move_forward(s, to_end) ==
    IF s.window = 0 THEN s
    ELSE WordForwardOn(s, to_end, line_cells(s, s.cursor_abs))

RECURSIVE WordBackLoop(_, _, _)

\* one round of the loop of _word_move_backward on the cells of line_abs, p
\* being the position before the blanks from pos back
WordBackFrom(s, line_abs, pos, cells, p) ==
    IF pos < 0 \/ p < 0
    THEN IF line_abs - 1 < 0 THEN NoTarget
         ELSE WordBackLoop(s, line_abs - 1, Len(line_cells(s, line_abs - 1)) - 1)
    ELSE <<line_abs, CellAt(cells, GroupStart(cells, p, ClassAt(cells, p)))>>

WordBackIn(s, line_abs, pos, cells) ==
    WordBackFrom(s, line_abs, pos, cells, SkipSpacesBack(cells, pos))

\* the loop of _word_move_backward from (line_abs, pos)
WordBackLoop(s, line_abs, pos) == WordBackIn(s, line_abs, pos, line_cells(s, line_abs))

\* the position of the cursor in the cells of its line, the last one when
\* the cursor is past them
WordBackwardIn(s, cells, found) ==
    MoveToTarget(MarkRead(s),
        WordBackLoop(s, s.cursor_abs,
            (IF found >= 0 THEN found
             ELSE IF cells # << >> THEN Len(cells) - 1 ELSE 0) - 1))

WordBackwardOn(s, cells) == WordBackwardIn(s, cells, CursorPos(cells, s.cursor_x))

word_move_backward(s) ==
    IF s.window = 0 THEN s
    ELSE WordBackwardOn(s, line_cells(s, s.cursor_abs))

\* ---------------------------------------------- text extraction, clipboard

\* the newline that joins the parts of the selected text
NL == "\n"

is_line_continued(s, abs_line) ==
    IF s.window = 0 \/ abs_line <= 0 THEN FALSE
    ELSE IF s.is_alt_screen THEN linebuf_is_continued(s.content, s.main_linebuf, abs_line)
    ELSE IF abs_line < s.history_count
         THEN historybuf_is_continued(s.content, s.history_count - 1 - abs_line)
    ELSE IF abs_line - s.history_count = 0
         THEN (IF s.history_count > 0 THEN historybuf_is_continued(s.content, 0) ELSE FALSE)
    ELSE linebuf_is_continued(s.content, s.main_linebuf, abs_line - s.history_count)

\* '\n'.join(parts)
RECURSIVE JoinLines(_)
JoinLines(parts) ==
    IF parts = << >> THEN << >>
    ELSE IF Len(parts) = 1 THEN parts[1]
    ELSE parts[1] \o <<NL>> \o JoinLines(Tail(parts))

\* the block loop of _get_selected_text over lines i..end_abs
RECURSIVE BlockParts(_, _, _, _, _)
BlockParts(s, i, end_abs, x_left, x_right) ==
    IF i > end_abs THEN << >>
    ELSE LET line == get_line_text(s, i)
             ci_left == cell_to_char_idx(line, x_left)
             ci_right == cell_to_char_idx(line, x_right + 1)
         IN <<RStrip(Slice(line, ci_left, ci_right))>>
            \o BlockParts(s, i + 1, end_abs, x_left, x_right)

\* a variant of the slice that stops before the end cell
SelectedSlice_end_exclusive(s, i, start_abs, end_abs, start_x, end_x) ==
    LET line == get_line_text(s, i)
        ci_s == cell_to_char_idx(line, start_x)
        ci_e == cell_to_char_idx(line, end_x)
    IN IF s.sel_mode # "char" THEN line
       ELSE IF i = start_abs /\ i = end_abs THEN Slice(line, ci_s, ci_e)
       ELSE IF i = start_abs THEN Slice(line, ci_s, Len(line))
       ELSE IF i = end_abs THEN Slice(line, 0, ci_e)
       ELSE line

\* one line of the char/line loop of _get_selected_text, before rstrip
SelectedSlice(s, i, start_abs, end_abs, start_x, end_x) ==
    LET line == get_line_text(s, i)
        ci_s == cell_to_char_idx(line, start_x)
        ci_e == cell_to_char_idx(line, end_x + 1)
    IN IF s.sel_mode # "char" THEN line
       ELSE IF i = start_abs /\ i = end_abs THEN Slice(line, ci_s, ci_e)
       ELSE IF i = start_abs THEN Slice(line, ci_s, Len(line))
       ELSE IF i = end_abs THEN Slice(line, 0, ci_e)
       ELSE line

\* the char/line loop of _get_selected_text over lines i..end_abs
RECURSIVE CharParts(_, _, _, _, _, _, _)
CharParts(s, i, start_abs, end_abs, start_x, end_x, parts) ==
    IF i > end_abs THEN parts
    ELSE LET line == RStrip(SelectedSlice(s, i, start_abs, end_abs, start_x, end_x))
             joined == IF parts # << >> /\ is_line_continued(s, i)
                       THEN [parts EXCEPT ![Len(parts)] = @ \o line]
                       ELSE Append(parts, line)
         IN CharParts(s, i + 1, start_abs, end_abs, start_x, end_x, joined)

get_selected_text(s) ==
    IF s.sel_mode = "none" THEN << >>
    ELSE
      LET start_abs == Min2(s.sel_start_abs, s.cursor_abs)
          end_abs == Max2(s.sel_start_abs, s.cursor_abs)
          anchor_first ==
              \/ s.sel_start_abs < s.cursor_abs
              \/ (s.sel_start_abs = s.cursor_abs /\ s.sel_start_x <= s.cursor_x)
          start_x == IF anchor_first THEN s.sel_start_x ELSE s.cursor_x
          end_x == IF anchor_first THEN s.cursor_x ELSE s.sel_start_x
      IN IF s.sel_mode = "block"
         THEN JoinLines(BlockParts(s, start_abs, end_abs,
                                   Min2(s.sel_start_x, s.cursor_x),
                                   Max2(s.sel_start_x, s.cursor_x)))
         ELSE JoinLines(CharParts(s, start_abs, start_abs, end_abs,
                                  start_x, end_x, << >>))

\* ------------------------------------------------------------- entry, exit

\* a call on the screen that the pause contract orders is appended to the log
Logged(s, call) == [s EXCEPT !.log = Append(@, call)]

\* a variant of enter that reports the refusal also when silent
enter_always_reports(s, tab_ok, silent) ==
    IF ~tab_ok
    THEN [s EXCEPT !.tab_manager = FALSE, !.error_shown = TRUE]
    ELSE
      LET alt == ~s.main_linebuf
          a == [Logged(s, "pause") EXCEPT
                   !.tab_manager = TRUE,
                   !.window = 1,
                   !.active = TRUE,
                   !.state = "NAVIGATE",
                   !.search_query = << >>,
                   !.sel_mode = "none",
                   !.is_alt_screen = alt,
                   !.scroll_pause = TRUE,
                   !.has_selection = FALSE,
                   !.cursor_abs = IF alt THEN s.screen_cursor.y
                                  ELSE s.history_count + s.screen_cursor.y,
                   !.cursor_x = s.screen_cursor.x]
      IN mark_dirty(sync_cursor(a))

\* ScrollMode.enter; tab_ok: a tab manager owns the window, its tab bar is
\* not hidden and should be visible
enter(s, tab_ok, silent) ==
    IF ~tab_ok
    THEN [s EXCEPT !.tab_manager = FALSE, !.error_shown = @ \/ ~silent]
    ELSE
      LET alt == ~s.main_linebuf
          a == [Logged(s, "pause") EXCEPT
                   !.tab_manager = TRUE,
                   !.window = 1,
                   !.active = TRUE,
                   !.state = "NAVIGATE",
                   !.search_query = << >>,
                   !.sel_mode = "none",
                   !.is_alt_screen = alt,
                   !.scroll_pause = TRUE,
                   !.has_selection = FALSE,
                   !.cursor_abs = IF alt THEN s.screen_cursor.y
                                  ELSE s.history_count + s.screen_cursor.y,
                   !.cursor_x = s.screen_cursor.x]
      IN mark_dirty(sync_cursor(a))

\* a variant of the calls of exit that leaves the viewport where it is
ExitScreen_no_scroll(s) ==
    LET a == clear_search_marker(
                 [s EXCEPT !.scroll_cursor = HiddenCursor,
                           !.scroll_selection = NoSelection])
        b == Logged(a, "flush")
        c == [Logged(b, "unpause") EXCEPT !.scroll_pause = FALSE]
    IN [c EXCEPT !.is_alt_screen = FALSE]

\* the calls of ScrollMode.exit on the screen, in the order the code makes them
ExitScreen(s) ==
    LET a == clear_search_marker(
                 [s EXCEPT !.scroll_cursor = HiddenCursor,
                           !.scroll_selection = NoSelection])
        b == Logged(a, "flush")
        c == [Logged(b, "unpause") EXCEPT !.scroll_pause = FALSE]
        d == IF ~c.is_alt_screen
             THEN Logged(ScreenScroll(c, SCROLL_FULL, FALSE), "scroll_end")
             ELSE c
    IN [d EXCEPT !.is_alt_screen = FALSE]

\* a variant of exit that drops the window without its calls on the screen
exit_forget_screen(s) ==
    [s EXCEPT !.active = FALSE, !.sel_mode = "none", !.window = 0,
              !.tab_manager = FALSE]

\* ScrollMode.exit
exit(s) ==
    LET a == IF s.window # 0 THEN ExitScreen(s) ELSE s
    IN [a EXCEPT !.active = FALSE, !.sel_mode = "none", !.window = 0,
                 !.tab_manager = FALSE]

enter_search(s, tab_ok) ==
    LET e == enter(s, tab_ok, FALSE)
    IN IF e.active
       THEN mark_dirty([e EXCEPT !.search_backwards = TRUE,
                                 !.search_query = << >>,
                                 !.state = "SEARCH"])
       ELSE e

\* a variant of enter_prompt_jump that does not test which buffer is shown
enter_prompt_jump_any_buffer(s, tab_ok) ==
    LET real_cursor_abs == s.history_count + s.screen_cursor.y
        w == [s EXCEPT !.window = 1]
        above == {l \in 0..(real_cursor_abs - 1) : IsPromptLine(w, l)}
        scanned == IF real_cursor_abs > 0 THEN MarkRead(w) ELSE w
        back == [scanned EXCEPT !.window = 0]
        e == enter(back, tab_ok, FALSE)
    IN IF above = {} THEN back
       ELSE IF e.active THEN move_cursor_to(e, SetMax(above), 0)
       ELSE e

\* ScrollMode.enter_prompt_jump
enter_prompt_jump(s, tab_ok) ==
    IF ~s.main_linebuf THEN s
    ELSE
      LET real_cursor_abs == s.history_count + s.screen_cursor.y
          w == [s EXCEPT !.window = 1]
          above == {l \in 0..(real_cursor_abs - 1) : IsPromptLine(w, l)}
          scanned == IF real_cursor_abs > 0 THEN MarkRead(w) ELSE w
          back == [scanned EXCEPT !.window = 0]
          e == enter(back, tab_ok, FALSE)
      IN IF above = {} THEN back
         ELSE IF e.active THEN move_cursor_to(e, SetMax(above), 0)
         ELSE e

\* -------------------------------------------------------------- selection

\* a variant of _start_selection that sets the selection mode and leaves
\* the state as it is
start_selection_keep_state(s, mode) ==
    mark_dirty(sync_cursor(
        [s EXCEPT !.sel_start_abs = s.cursor_abs,
                  !.sel_start_x = IF mode = "line" THEN 0 ELSE s.cursor_x,
                  !.sel_mode = mode]))

\* ScrollMode._start_selection
start_selection(s, mode) ==
    mark_dirty(sync_cursor(
        [s EXCEPT !.sel_start_abs = s.cursor_abs,
                  !.sel_start_x = IF mode = "line" THEN 0 ELSE s.cursor_x,
                  !.sel_mode = mode,
                  !.state = "SELECT"]))

select_word_at_cursor(s) ==
    IF s.window = 0 THEN s
    ELSE
      LET cells == line_cells(s, s.cursor_abs)
          pos == CursorPos(cells, s.cursor_x)
          cls == ClassAt(cells, pos)
          r == MarkRead(s)
      IN IF cells = << >> \/ pos < 0 THEN r
         ELSE IF cls = 0 THEN r
         ELSE mark_dirty(sync_cursor(
                  [r EXCEPT !.sel_start_abs = s.cursor_abs,
                            !.sel_start_x = CellAt(cells, GroupStart(cells, pos, cls)),
                            !.cursor_x = CellAt(cells, GroupEnd(cells, pos, cls)),
                            !.sel_mode = "char",
                            !.state = "SELECT"]))

\* the selection of the renderer is cleared, when there is a window
ClearShownSelection(n) ==
    IF n.window # 0 THEN [n EXCEPT !.scroll_selection = NoSelection] ELSE n

\* the end of _yank_selection: back to NAVIGATE, or out of the mode
YankDone(y, stay) ==
    IF stay
    THEN mark_dirty(sync_cursor(ClearShownSelection(
             [y EXCEPT !.sel_mode = "none", !.state = "NAVIGATE"])))
    ELSE exit(y)

\* a variant of the copy that hands the text to the clipboard twice
YankText_twice(r, text, stay) ==
    YankDone(IF text # << >>
             THEN [r EXCEPT !.clipboard = Append(Append(@, text), text)]
             ELSE r,
             stay)

\* the text, when there is one, goes to the clipboard
YankText(r, text, stay) ==
    YankDone(IF text # << >> THEN [r EXCEPT !.clipboard = Append(@, text)] ELSE r,
             stay)

\* a variant of the yank that always stays in the mode
yank_selection_always_stay(s, stay) ==
    YankText(IF s.sel_mode # "none" THEN MarkRead(s) ELSE s,
             get_selected_text(s), TRUE)

yank_selection(s, stay) ==
    YankText(IF s.sel_mode # "none" THEN MarkRead(s) ELSE s,
             get_selected_text(s), stay)

\* ------------------------------------------------------------------ mouse

mouse_click(s, cell_x, cell_y) ==
    IF s.window = 0 THEN s
    ELSE
      LET abs_line == Clamp(viewport_top(s) + cell_y, 0, total_lines(s) - 1)
          cx == snap_cell_x(s, abs_line, Clamp(cell_x, 0, s.columns - 1))
      IN move_cursor_to(MarkRead(s), abs_line, cx)

\* a variant of _mouse_move that scrolls by a screenful at the edges
mouse_move_by_screen(s, cell_x, cell_y) ==
    IF s.window = 0 THEN s
    ELSE
      LET a == IF s.is_alt_screen THEN s
               ELSE IF cell_y <= 0 /\ s.scrolled_by < s.history_count
                    THEN ScreenScroll(s, s.lines, TRUE)
               ELSE IF cell_y >= s.lines - 1 /\ s.scrolled_by > 0
                    THEN ScreenScroll(s, s.lines, FALSE)
               ELSE s
          abs_line == Clamp(viewport_top(a) + cell_y, 0, total_lines(a) - 1)
          cx == snap_cell_x(a, abs_line, Clamp(cell_x, 0, s.columns - 1))
      IN mark_dirty(sync_cursor(ensure_cursor_visible(
             [MarkRead(a) EXCEPT !.cursor_abs = abs_line, !.cursor_x = cx])))

\* ScrollMode._mouse_move
mouse_move(s, cell_x, cell_y) ==
    IF s.window = 0 THEN s
    ELSE
      LET a == IF s.is_alt_screen THEN s
               ELSE IF cell_y <= 0 /\ s.scrolled_by < s.history_count
                    THEN ScreenScroll(s, 1, TRUE)
               ELSE IF cell_y >= s.lines - 1 /\ s.scrolled_by > 0
                    THEN ScreenScroll(s, 1, FALSE)
               ELSE s
          abs_line == Clamp(viewport_top(a) + cell_y, 0, total_lines(a) - 1)
          cx == snap_cell_x(a, abs_line, Clamp(cell_x, 0, s.columns - 1))
      IN mark_dirty(sync_cursor(ensure_cursor_visible(
             [MarkRead(a) EXCEPT !.cursor_abs = abs_line, !.cursor_x = cx])))

\* the value handle_mouse or handle_key returns
Returned(s, value) == [s EXCEPT !.consumed = IF value THEN "true" ELSE "false"]

\* the mouse buttons: the left one and some other
GLFW_MOUSE_BUTTON_LEFT == "left"

MouseButtons == {GLFW_MOUSE_BUTTON_LEFT, "right"}

\* press, double press, triple press, drag, release
RepeatCounts == {1, 2, 3, 0, -1}

\* window.current_mouse_position(): None or a cell of the window
NoPosition == [cell_x |-> -1, cell_y |-> -1]

\* the cells the mouse is at: two opposite corners of the window
MouseCells ==
    {[cell_x |-> 0, cell_y |-> 0], [cell_x |-> columns - 1, cell_y |-> lines - 1]}

\* a variant of the handler of an inactive mode that anchors the selection
\* of a drag at the cell of the drag
MouseInactive_anchor_at_drag(s, repeat_count, cell_x, cell_y, mouse_opt, tab_ok) ==
    LET e == enter(s, tab_ok, TRUE)
        anchor_abs == IF e.is_alt_screen THEN cell_y
                      ELSE s.history_count - e.scrolled_by + cell_y
        d == start_selection(move_cursor_to(e, anchor_abs, cell_x), "char")
    IN IF ~mouse_opt THEN Returned(s, FALSE)
       ELSE IF repeat_count = 1
       THEN Returned([s EXCEPT !.drag_press_y = cell_y, !.drag_press_x = cell_x], FALSE)
       ELSE IF repeat_count = 2
       THEN Returned(IF e.active
                     THEN select_word_at_cursor(mouse_click(e, cell_x, cell_y))
                     ELSE e, TRUE)
       ELSE IF repeat_count = 3
       THEN Returned(IF e.active
                     THEN start_selection(mouse_click(e, cell_x, cell_y), "line")
                     ELSE e, TRUE)
       ELSE IF repeat_count = 0
       THEN Returned(IF e.active
                     THEN mouse_move([d EXCEPT !.drag_active = TRUE,
                                               !.drag_started = TRUE],
                                     cell_x, cell_y)
                     ELSE e, TRUE)
       ELSE Returned(s, FALSE)

\* handle_mouse while the mode is not active
MouseInactive(s, repeat_count, cell_x, cell_y, mouse_opt, tab_ok) ==
    LET e == enter(s, tab_ok, TRUE)
        anchor_abs == IF e.is_alt_screen THEN e.drag_press_y
                      ELSE s.history_count - e.scrolled_by + e.drag_press_y
        d == start_selection(move_cursor_to(e, anchor_abs, e.drag_press_x), "char")
    IN IF ~mouse_opt THEN Returned(s, FALSE)
       ELSE IF repeat_count = 1
       THEN Returned([s EXCEPT !.drag_press_y = cell_y, !.drag_press_x = cell_x], FALSE)
       ELSE IF repeat_count = 2
       THEN Returned(IF e.active
                     THEN select_word_at_cursor(mouse_click(e, cell_x, cell_y))
                     ELSE e, TRUE)
       ELSE IF repeat_count = 3
       THEN Returned(IF e.active
                     THEN start_selection(mouse_click(e, cell_x, cell_y), "line")
                     ELSE e, TRUE)
       ELSE IF repeat_count = 0
       THEN Returned(IF e.active
                     THEN mouse_move([d EXCEPT !.drag_active = TRUE,
                                               !.drag_started = TRUE],
                                     cell_x, cell_y)
                     ELSE e, TRUE)
       ELSE Returned(s, FALSE)

\* handle_mouse while the mode is active
MouseActive(s, repeat_count, cell_x, cell_y) ==
    LET unsel == IF s.state = "SELECT"
                 THEN [s EXCEPT !.sel_mode = "none", !.state = "NAVIGATE"]
                 ELSE s
        begun == IF ~s.drag_started
                 THEN [start_selection(s, "char") EXCEPT !.drag_started = TRUE]
                 ELSE s
    IN IF repeat_count = 1
       THEN Returned([mouse_click(unsel, cell_x, cell_y) EXCEPT
                          !.drag_active = TRUE, !.drag_started = FALSE], TRUE)
       ELSE IF repeat_count = 2
       THEN Returned([select_word_at_cursor(mouse_click(s, cell_x, cell_y)) EXCEPT
                          !.drag_active = FALSE], TRUE)
       ELSE IF repeat_count = 3
       THEN Returned([start_selection(mouse_click(s, cell_x, cell_y), "line") EXCEPT
                          !.drag_active = FALSE], TRUE)
       ELSE IF repeat_count = 0
       THEN (IF ~s.drag_active THEN Returned(s, TRUE)
             ELSE Returned(mouse_move(begun, cell_x, cell_y), TRUE))
       ELSE Returned(s, TRUE)

\* a variant of handle_mouse that treats every button as the left one
handle_mouse_any_button(s, button, repeat_count, pos, mouse_opt, tab_ok) ==
    IF pos = NoPosition THEN Returned(s, s.active)
    ELSE IF ~s.active
    THEN MouseInactive(s, repeat_count, pos.cell_x, pos.cell_y, mouse_opt, tab_ok)
    ELSE MouseActive(s, repeat_count, pos.cell_x, pos.cell_y)

\* ScrollMode.handle_mouse; mouse_opt is get_options().scroll_mode_mouse
handle_mouse(s, button, repeat_count, pos, mouse_opt, tab_ok) ==
    IF button # GLFW_MOUSE_BUTTON_LEFT THEN Returned(s, s.active)
    ELSE IF pos = NoPosition THEN Returned(s, s.active)
    ELSE IF ~s.active
    THEN MouseInactive(s, repeat_count, pos.cell_x, pos.cell_y, mouse_opt, tab_ok)
    ELSE MouseActive(s, repeat_count, pos.cell_x, pos.cell_y)

\* ------------------------------------------------------------------- keys

\* A key event: the key (a character or a function key), the modifiers
\* ("none", "shift", "ctrl" or "alt") and the text the key produces.
Key(key, mods, text) == [key |-> key, mods |-> mods, text |-> text]

\* the characters for which str.isprintable() holds, among the events' texts
IsPrintable(text) == text # ""

handle_movement(s, ev) ==
    LET key == ev.key
        mods == ev.mods
        half == Max2(1, s.lines \div 2)
    IN IF (key = "j" /\ mods = "none") \/ key = "DOWN" THEN move_cursor(s, 1, 0)
       ELSE IF (key = "k" /\ mods = "none") \/ key = "UP" THEN move_cursor(s, -1, 0)
       ELSE IF (key = "h" /\ mods = "none") \/ key = "LEFT" THEN move_cursor(s, 0, -1)
       ELSE IF (key = "l" /\ mods = "none") \/ key = "RIGHT" THEN move_cursor(s, 0, 1)
       ELSE IF key = "d" /\ mods \in {"none", "ctrl"} THEN move_cursor(s, half, 0)
       ELSE IF key = "u" /\ mods \in {"none", "ctrl"} THEN move_cursor(s, -half, 0)
       ELSE IF (key = "f" /\ mods = "ctrl") \/ key = "PAGE_DOWN"
            THEN move_cursor(s, s.lines, 0)
       ELSE IF (key = "b" /\ mods = "ctrl") \/ key = "PAGE_UP"
            THEN move_cursor(s, -s.lines, 0)
       ELSE IF key = "g" /\ mods = "none" THEN move_cursor_to(s, 0, 0)
       ELSE IF key = "g" /\ mods = "shift"
            THEN move_cursor_to(s, total_lines(s) - 1, 0)
       ELSE IF key = "0" /\ mods = "none"
            THEN mark_dirty(sync_cursor([s EXCEPT !.cursor_x = 0]))
       ELSE IF ev.text = "$"
            THEN mark_dirty(sync_cursor([s EXCEPT !.cursor_x = s.columns - 1]))
       ELSE IF key = "w" /\ mods = "none" THEN word_move_forward(s, FALSE)
       ELSE IF key = "e" /\ mods = "none" THEN word_move_forward(s, TRUE)
       ELSE IF key = "b" /\ mods = "none" THEN word_move_backward(s)
       ELSE s

\* a variant in which every new search runs forwards
OpenSearch_forward(s, backwards) ==
    [s EXCEPT !.search_backwards = FALSE, !.search_query = << >>,
              !.state = "SEARCH"]

\* `/`, Alt+s or `?`: a new search is opened
OpenSearch(s, backwards) ==
    [s EXCEPT !.search_backwards = backwards, !.search_query = << >>,
              !.state = "SEARCH"]

IsSearchBackKey(ev) ==
    (ev.key = "/" /\ ev.mods = "none") \/ (ev.key = "s" /\ ev.mods = "alt")

IsSearchFwdKey(ev) == (ev.key = "/" /\ ev.mods = "shift") \/ ev.text = "?"

handle_navigate(s, ev) ==
    LET key == ev.key
        mods == ev.mods
    IN IF (key = "q" /\ mods = "none") \/ (key = "ESCAPE" /\ mods = "none")
       THEN exit(s)
       ELSE IF IsSearchBackKey(ev) THEN mark_dirty(OpenSearch(s, TRUE))
       ELSE IF IsSearchFwdKey(ev) THEN mark_dirty(OpenSearch(s, FALSE))
       ELSE IF key = "n" /\ mods = "none"
            THEN (IF s.search_query # << >>
                  THEN jump_to_match(s, s.search_backwards) ELSE s)
       ELSE IF key = "n" /\ mods = "shift"
            THEN (IF s.search_query # << >>
                  THEN jump_to_match(s, ~s.search_backwards) ELSE s)
       ELSE IF key = "u" /\ mods = "alt" THEN jump_to_prompt(s, TRUE)
       ELSE IF key = "n" /\ mods = "alt" THEN jump_to_prompt(s, FALSE)
       ELSE IF key = "v" /\ mods = "none" THEN start_selection(s, "char")
       ELSE IF key = "v" /\ mods = "shift" THEN start_selection(s, "line")
       ELSE IF key = "v" /\ mods = "ctrl" THEN start_selection(s, "block")
       ELSE handle_movement(s, ev)

handle_search(s, ev) ==
    LET key == ev.key
        mods == ev.mods
        shorter == [s EXCEPT !.search_query = SubSeq(@, 1, Len(@) - 1)]
        longer == [s EXCEPT !.search_query = Append(@, ev.text)]
    IN IF key = "ESCAPE" /\ mods = "none"
       THEN mark_dirty([clear_search_marker(s) EXCEPT
                            !.search_query = << >>, !.state = "NAVIGATE"])
       ELSE IF key \in {"ENTER", "KP_ENTER"} /\ mods = "none"
       THEN mark_dirty([s EXCEPT !.state = "NAVIGATE"])
       ELSE IF key = "BACKSPACE" /\ mods = "none"
       THEN mark_dirty(
                IF s.search_query = << >> THEN s
                ELSE IF shorter.search_query # << >> THEN apply_search_marker(shorter)
                ELSE clear_search_marker(shorter))
       ELSE IF key = "u" /\ mods = "ctrl"
       THEN mark_dirty(clear_search_marker([s EXCEPT !.search_query = << >>]))
       ELSE IF mods \in {"none", "shift"} /\ IsPrintable(ev.text)
       THEN mark_dirty(jump_to_nearest_match(apply_search_marker(longer)))
       ELSE s

\* the `o` key: anchor and cursor change places
SwapAnchor(s) ==
    [s EXCEPT !.sel_start_abs = s.cursor_abs, !.cursor_abs = s.sel_start_abs,
              !.sel_start_x = s.cursor_x, !.cursor_x = s.sel_start_x]

\* a variant of `v` in SELECT that never leaves the selection
ToggleChar_stay(s) == [s EXCEPT !.sel_mode = "char"]

\* `v` in SELECT
ToggleChar(s) ==
    IF s.sel_mode = "char"
    THEN [s EXCEPT !.sel_mode = "none", !.state = "NAVIGATE"]
    ELSE [s EXCEPT !.sel_mode = "char"]

\* `V` (mode "line") or Ctrl+V (mode "block") in SELECT
ToggleMode(s, mode) ==
    IF s.sel_mode = mode
    THEN [s EXCEPT !.sel_mode = IF s.sel_prev_mode # "none"
                                 THEN s.sel_prev_mode ELSE "char"]
    ELSE [s EXCEPT !.sel_prev_mode = s.sel_mode, !.sel_mode = mode]

handle_select(s, ev) ==
    LET key == ev.key
        mods == ev.mods
    IN IF key = "ESCAPE" /\ mods = "none" THEN yank_selection(s, FALSE)
       ELSE IF key = "q" /\ mods = "none" THEN exit(s)
       ELSE IF key = "y" /\ mods = "none" THEN yank_selection(s, FALSE)
       ELSE IF key = "y" /\ mods = "shift" THEN yank_selection(s, TRUE)
       ELSE IF key = "o" /\ mods = "none"
            THEN mark_dirty(sync_cursor(ensure_cursor_visible(SwapAnchor(s))))
       ELSE IF key = "v" /\ mods = "none"
            THEN mark_dirty(sync_cursor(ToggleChar(s)))
       ELSE IF key = "v" /\ mods = "shift"
            THEN mark_dirty(sync_cursor(ToggleMode(s, "line")))
       ELSE IF key = "v" /\ mods = "ctrl"
            THEN mark_dirty(sync_cursor(ToggleMode(s, "block")))
       ELSE IF key = "n" /\ mods = "none"
            THEN (IF s.search_query # << >>
                  THEN jump_to_match(s, s.search_backwards) ELSE s)
       ELSE IF key = "n" /\ mods = "shift"
            THEN (IF s.search_query # << >>
                  THEN jump_to_match(s, ~s.search_backwards) ELSE s)
       ELSE IF IsSearchBackKey(ev)
            THEN mark_dirty(sync_cursor([OpenSearch(s, TRUE) EXCEPT !.sel_mode = "none"]))
       ELSE IF IsSearchFwdKey(ev)
            THEN mark_dirty(sync_cursor([OpenSearch(s, FALSE) EXCEPT !.sel_mode = "none"]))
       ELSE handle_movement(s, ev)

\* a variant that dispatches the events of every phase
handle_key_every_phase(s, ev, pressed) ==
    IF s.window = 0 THEN Returned(s, FALSE)
    ELSE IF s.state = "NAVIGATE" THEN Returned(handle_navigate(s, ev), TRUE)
    ELSE IF s.state = "SEARCH" THEN Returned(handle_search(s, ev), TRUE)
    ELSE IF s.state = "SELECT" THEN Returned(handle_select(s, ev), TRUE)
    ELSE Returned(s, FALSE)

\* ScrollMode.handle_key; pressed: the event's action is GLFW_PRESS or
\* GLFW_REPEAT
handle_key(s, ev, pressed) ==
    IF ~pressed THEN Returned(s, TRUE)
    ELSE IF s.window = 0 THEN Returned(s, FALSE)
    ELSE IF s.state = "NAVIGATE" THEN Returned(handle_navigate(s, ev), TRUE)
    ELSE IF s.state = "SEARCH" THEN Returned(handle_search(s, ev), TRUE)
    ELSE IF s.state = "SELECT" THEN Returned(handle_select(s, ev), TRUE)
    ELSE Returned(s, FALSE)

\* ------------------------------------------------------------ the events

\* the characters the model types into a search query
TypedKeys == {Key("q", "none", "q")}

\* the movement keys, with the keys that are other names of them
MoveKeys ==
    {Key("j", "none", "j"), Key("k", "none", "k"),
     Key("h", "none", "h"), Key("l", "none", "l"),
     Key("DOWN", "none", ""), Key("UP", "none", ""),
     Key("LEFT", "none", ""), Key("RIGHT", "none", ""),
     Key("d", "none", "d"), Key("d", "ctrl", ""),
     Key("u", "none", "u"), Key("u", "ctrl", ""),
     Key("f", "ctrl", ""), Key("PAGE_DOWN", "none", ""),
     Key("b", "ctrl", ""), Key("PAGE_UP", "none", ""),
     Key("g", "none", "g"), Key("g", "shift", "G"),
     Key("0", "none", "0"), Key("4", "shift", "$"),
     Key("w", "none", "w"), Key("e", "none", "e"), Key("b", "none", "b")}

\* the keys that leave the mode, one unmapped printable key and one unmapped
\* function key
CommonKeys ==
    {Key("q", "none", "q"), Key("ESCAPE", "none", ""),
     Key("a", "none", "a"), Key("F1", "none", "")}

\* the keys of searching and of the jumps between prompts, with the editing
\* keys of SEARCH, which NAVIGATE ignores
SearchingKeys ==
    {Key("/", "none", "/"), Key("s", "alt", ""), Key("/", "shift", "?"),
     Key("n", "none", "n"), Key("n", "shift", "N"),
     Key("u", "alt", ""), Key("n", "alt", ""),
     Key("ENTER", "none", ""), Key("KP_ENTER", "none", ""),
     Key("BACKSPACE", "none", "")}

\* the keys of selecting, with `/`, which leaves a selection for a search
SelectingKeys ==
    {Key("v", "none", "v"), Key("v", "shift", "V"), Key("v", "ctrl", ""),
     Key("y", "none", "y"), Key("y", "shift", "Y"), Key("o", "none", "o"),
     Key("/", "none", "/")}

\* the keys pressed in a session of moving and searching
NavigateKeys == MoveKeys \cup CommonKeys \cup SearchingKeys

\* the keys pressed in a session of moving and selecting
SelectKeys == MoveKeys \cup CommonKeys \cup SelectingKeys

\* the keys pressed in SEARCH but for the typed characters: the editing
\* keys and keys the state ignores
SearchEditKeys ==
    {Key("ESCAPE", "none", ""), Key("ENTER", "none", ""),
     Key("KP_ENTER", "none", ""), Key("BACKSPACE", "none", ""),
     Key("u", "ctrl", ""), Key("s", "alt", ""), Key("F1", "none", "")}

\* the keys pressed in SEARCH: typed characters are pressed while the query
\* is shorter than MaxQuery
SearchKeys ==
    SearchEditKeys \cup (IF Len(search_query) < MaxQuery THEN TypedKeys ELSE {})

InSearch == active /\ state = "SEARCH"

CallEnter(tab_ok, silent) == Becomes(enter(Cur, tab_ok, silent))

CallEnterSearch(tab_ok) == Becomes(enter_search(Cur, tab_ok))

CallEnterPromptJump(tab_ok) == Becomes(enter_prompt_jump(Cur, tab_ok))

CallExit == Becomes(exit(Cur))

CallKey(ev, pressed) == Becomes(handle_key(Cur, ev, pressed))

CallMouse(button, repeat_count, pos, mouse_opt, tab_ok) ==
    Becomes(handle_mouse(Cur, button, repeat_count, pos, mouse_opt, tab_ok))

\* the mode is entered from the keyboard shortcut while it is not active
Enter == ~active /\ \E tab_ok \in BOOLEAN, silent \in BOOLEAN : CallEnter(tab_ok, silent)

EnterSearch == ~active /\ \E tab_ok \in BOOLEAN : CallEnterSearch(tab_ok)

EnterPromptJump == ~active /\ \E tab_ok \in BOOLEAN : CallEnterPromptJump(tab_ok)

\* the window asks the active mode to exit
Exit == active /\ CallExit

\* a key is pressed in a session of moving and searching
KeyPress ==
    \E ev \in (IF InSearch THEN SearchKeys ELSE NavigateKeys) : CallKey(ev, TRUE)

\* a key is pressed in a session of moving and selecting
KeyPressSelect ==
    \E ev \in (IF InSearch THEN SearchEditKeys ELSE SelectKeys) : CallKey(ev, TRUE)

KeyRelease == CallKey(Key("j", "none", ""), FALSE)

\* a left-button event at a cell or with no position known
MouseLeft ==
    \E repeat_count \in RepeatCounts, pos \in MouseCells \cup {NoPosition},
       mouse_opt \in BOOLEAN, tab_ok \in BOOLEAN :
        /\ active => (mouse_opt /\ tab_ok)
        /\ CallMouse(GLFW_MOUSE_BUTTON_LEFT, repeat_count, pos, mouse_opt, tab_ok)

\* an event of another button
MouseOther ==
    \E button \in MouseButtons \ {GLFW_MOUSE_BUTTON_LEFT}, repeat_count \in RepeatCounts :
        CallMouse(button, repeat_count, NoPosition, TRUE, TRUE)

\* the keys pressed along with the mouse: the movements but for the words,
\* `v`, the swap, the yanks and the two keys that exit
PointerKeys ==
    {Key("j", "none", "j"), Key("k", "none", "k"),
     Key("h", "none", "h"), Key("l", "none", "l"),
     Key("d", "none", "d"), Key("u", "none", "u"),
     Key("f", "ctrl", ""), Key("b", "ctrl", ""),
     Key("g", "none", "g"), Key("g", "shift", "G"),
     Key("0", "none", "0"), Key("4", "shift", "$"),
     Key("u", "alt", ""), Key("n", "alt", ""),
     Key("v", "none", "v"), Key("o", "none", "o"),
     Key("y", "none", "y"), Key("y", "shift", "Y"),
     Key("q", "none", "q"), Key("ESCAPE", "none", "")}

KeyPressPointer == \E ev \in PointerKeys : CallKey(ev, TRUE)

\* the mode driven from the keyboard, moving and searching
Next ==
    \/ Enter
    \/ EnterSearch
    \/ EnterPromptJump
    \/ Exit
    \/ KeyPress
    \/ KeyRelease

Spec == Init /\ [][Next]_vars

\* the mode driven from the keyboard, moving and selecting
NextSelect ==
    \/ Enter
    \/ EnterSearch
    \/ Exit
    \/ KeyPressSelect
    \/ KeyRelease

SpecSelect == Init /\ [][NextSelect]_vars

\* the mode driven with the mouse and the keys that go with it
NextMouse ==
    \/ Enter
    \/ Exit
    \/ MouseLeft
    \/ MouseOther
    \/ KeyPressPointer

SpecMouse == Init /\ [][NextMouse]_vars

\* ---------------------------------------------------------- properties

KeyQ == Key("q", "none", "q")
KeyEscape == Key("ESCAPE", "none", "")
KeyEnter == Key("ENTER", "none", "")
KeyY == Key("y", "none", "y")
KeyV == Key("v", "none", "v")
KeyShiftV == Key("v", "shift", "V")
KeyCtrlV == Key("v", "ctrl", "")

\* the record after a press of ev in the current state
Pressed(ev) == handle_key(Cur, ev, TRUE)

\* C1: in every active state the cursor column is in 0..columns-1, and so is
\* the x last handed to set_scroll_cursor.
C1_CursorColumnInRange ==
    active => /\ cursor_x \in 0..(columns - 1)
              /\ scroll_cursor.x \in 0..(columns - 1)

\* C2: in every active state the cursor column is the first cell of a
\* character: snapping it gives the same column.
C2_CursorOnCharacterStart ==
    active => snap_cell_x(Cur, cursor_abs, cursor_x) = cursor_x

\* C3: in every active state the cursor line is a line of the buffer:
\* 0 <= cursor_abs < total_lines.
C3_CursorLineInBuffer ==
    active => (0 <= cursor_abs /\ cursor_abs < total_lines(Cur))

\* C3 happens: a drag has moved the cursor to the last line of the buffer
\* from an anchor on another line.
C3_Witness ==
    /\ active
    /\ drag_started
    /\ cursor_abs = total_lines(Cur) - 1
    /\ sel_start_abs < cursor_abs

\* the movement commands of NAVIGATE and SELECT
MovementKeys ==
    {Key("h", "none", "h"), Key("j", "none", "j"), Key("k", "none", "k"),
     Key("l", "none", "l"), Key("LEFT", "none", ""), Key("DOWN", "none", ""),
     Key("UP", "none", ""), Key("RIGHT", "none", ""),
     Key("0", "none", "0"), Key("4", "shift", "$"),
     Key("g", "none", "g"), Key("g", "shift", "G"),
     Key("d", "none", "d"), Key("d", "ctrl", ""),
     Key("u", "none", "u"), Key("u", "ctrl", ""),
     Key("f", "ctrl", ""), Key("PAGE_DOWN", "none", ""),
     Key("b", "ctrl", ""), Key("PAGE_UP", "none", ""),
     Key("w", "none", "w"), Key("e", "none", "e"), Key("b", "none", "b"),
     Key("n", "none", "n"), Key("n", "shift", "N"),
     Key("n", "alt", ""), Key("u", "alt", "")}

\* the cursor line of the record t is one of the lines the viewport shows
InViewport(t) ==
    /\ viewport_top(t) <= t.cursor_abs
    /\ t.cursor_abs < viewport_top(t) + t.lines

\* C4: on the main buffer, after every movement command pressed in NAVIGATE
\* or SELECT the cursor line is within [viewport_top, viewport_top + lines).
C4_CursorInViewportAfterMovement ==
    (active /\ ~is_alt_screen /\ state \in {"NAVIGATE", "SELECT"})
        => \A ev \in MovementKeys : InViewport(Pressed(ev))

\* enter, then exit with no event in between
EnterThenExit(tab_ok, silent) == exit(enter(Cur, tab_ok, silent))

\* the history and the live buffer of the record t are those of the
\* current state
SameBuffers(t) ==
    /\ t.history_count = history_count
    /\ t.content = content
    /\ t.main_linebuf = main_linebuf
    /\ t.columns = columns
    /\ t.lines = lines

\* C5 as stated: enter and then exit, with nothing in between, leave
\* historybuf.count, scrolled_by and the live buffer as they were.
C5_EnterExitRestoresScreen ==
    ~active => \A tab_ok \in BOOLEAN, silent \in BOOLEAN :
                   LET t == EnterThenExit(tab_ok, silent)
                   IN SameBuffers(t) /\ t.scrolled_by = scrolled_by

\* C5 amended: enter and then exit leave historybuf.count and the live
\* buffer as they were; scrolled_by is as it was on the alternate buffer
\* and when the mode was refused, and is 0 on the main buffer.
C5_EnterExitScrollsMainToBottom ==
    ~active => \A tab_ok \in BOOLEAN, silent \in BOOLEAN :
                   LET t == EnterThenExit(tab_ok, silent)
                   IN /\ SameBuffers(t)
                      /\ t.scrolled_by = IF tab_ok /\ main_linebuf THEN 0
                                         ELSE scrolled_by

\* C5 happens: the mode is entered on a main buffer that is scrolled back,
\* and exit ends at the bottom.
C5_Witness ==
    /\ ~active
    /\ main_linebuf
    /\ scrolled_by > 0
    /\ enter(Cur, TRUE, FALSE).active
    /\ enter(Cur, TRUE, FALSE).scrolled_by = scrolled_by
    /\ ~EnterThenExit(TRUE, FALSE).active
    /\ EnterThenExit(TRUE, FALSE).scrolled_by = 0

\* C6: on no entry path is a line of the buffer read before
\* set_scroll_pause(True).
C6_PauseBeforeFirstRead ==
    ~active => \A tab_ok \in BOOLEAN :
        /\ \A silent \in BOOLEAN : ~enter(Cur, tab_ok, silent).unpaused_read
        /\ ~enter_search(Cur, tab_ok).unpaused_read
        /\ ~enter_prompt_jump(Cur, tab_ok).unpaused_read
        /\ \A repeat_count \in RepeatCounts, pos \in MouseCells :
               ~handle_mouse(Cur, GLFW_MOUSE_BUTTON_LEFT, repeat_count, pos,
                             TRUE, tab_ok).unpaused_read

\* in the calls of log, set_scroll_pause(False) comes after
\* flush_scroll_pending and, when to_bottom, after scroll(SCROLL_FULL, False)
UnpausedLast(calls, to_bottom) ==
    \A i \in 1..Len(calls) :
        calls[i] = "unpause" =>
            /\ \E j \in 1..(i - 1) : calls[j] = "flush"
            /\ to_bottom => \E j \in 1..(i - 1) : calls[j] = "scroll_end"

\* the records after each way out of the active mode: exit itself, and the
\* keys that lead to it
ExitPaths == {exit(Cur)} \cup {Pressed(ev) : ev \in {KeyQ, KeyEscape, KeyY}}

\* C7: on every exit path the pause is cleared only after the flush and, on
\* the main buffer, after the scroll to the bottom.
C7_PauseClearedLast ==
    active => \A t \in ExitPaths :
                  ~t.active => UnpausedLast(t.log, ~is_alt_screen)

\* C8 as stated: `q` makes the mode inactive from NAVIGATE, SEARCH and
\* SELECT, and so do Escape and `y` in SELECT.
C8_QuitFromEveryState ==
    active => /\ ~Pressed(KeyQ).active
              /\ state = "SELECT" => (~Pressed(KeyEscape).active /\ ~Pressed(KeyY).active)

\* C8 amended: `q` makes the mode inactive from NAVIGATE and SELECT, and so
\* do Escape and `y` in SELECT; in SEARCH `q` is typed into the query and
\* the mode stays active in SEARCH.
C8_QuitFromNavigateAndSelect ==
    active =>
        /\ state \in {"NAVIGATE", "SELECT"} => ~Pressed(KeyQ).active
        /\ state = "SELECT" => (~Pressed(KeyEscape).active /\ ~Pressed(KeyY).active)
        /\ state = "SEARCH" =>
               /\ Pressed(KeyQ).active
               /\ Pressed(KeyQ).state = "SEARCH"
               /\ Pressed(KeyQ).search_query = Append(search_query, "q")

\* C8 happens: the mode has been left from SELECT, where a selection ran
\* from one line to another: it is inactive, its state is still SELECT and
\* exit has dropped the selection mode
C8_Witness ==
    /\ ~active
    /\ state = "SELECT"
    /\ sel_mode = "none"
    /\ cursor_abs # sel_start_abs

\* C9 as stated: in SELECT the key of the current selection mode leads to
\* NAVIGATE with no selection.
C9_ToggleCurrentModeLeavesSelect ==
    (active /\ state = "SELECT") =>
        LET ev == IF sel_mode = "char" THEN KeyV
                  ELSE IF sel_mode = "line" THEN KeyShiftV ELSE KeyCtrlV
        IN /\ Pressed(ev).state = "NAVIGATE"
           /\ Pressed(ev).sel_mode = "none"

\* C9 amended: in SELECT `v` in char mode leads to NAVIGATE with no
\* selection; `V` in line mode and Ctrl+V in block mode stay in SELECT and
\* go back to the mode that was left for this one, char when there was none.
C9_ToggleCharLeavesSelect ==
    (active /\ state = "SELECT") =>
        LET back == IF sel_prev_mode # "none" THEN sel_prev_mode ELSE "char"
        IN /\ sel_mode = "char" =>
                  /\ Pressed(KeyV).state = "NAVIGATE"
                  /\ Pressed(KeyV).sel_mode = "none"
                  /\ Pressed(KeyV).scroll_selection = NoSelection
           /\ sel_mode = "line" =>
                  /\ Pressed(KeyShiftV).state = "SELECT"
                  /\ Pressed(KeyShiftV).sel_mode = back
           /\ sel_mode = "block" =>
                  /\ Pressed(KeyCtrlV).state = "SELECT"
                  /\ Pressed(KeyCtrlV).sel_mode = back

\* C9 happens: a selection was toggled from block back to line, the mode it
\* had been entered from
C9_Witness ==
    /\ active
    /\ state = "SELECT"
    /\ sel_mode = "line"
    /\ sel_prev_mode = "line"

\* C10: in SEARCH, Enter leads to NAVIGATE with the query, the marker and the
\* cursor as they were; Escape leads to NAVIGATE with an empty query and no
\* marker; the mode stays active after both.
C10_SearchCommitAndCancel ==
    (active /\ state = "SEARCH") =>
        /\ Pressed(KeyEnter).active
        /\ Pressed(KeyEnter).state = "NAVIGATE"
        /\ Pressed(KeyEnter).search_query = search_query
        /\ Pressed(KeyEnter).marker = marker
        /\ Pressed(KeyEnter).cursor_abs = cursor_abs
        /\ Pressed(KeyEnter).cursor_x = cursor_x
        /\ Pressed(KeyEscape).active
        /\ Pressed(KeyEscape).state = "NAVIGATE"
        /\ Pressed(KeyEscape).search_query = << >>
        /\ Pressed(KeyEscape).marker = NoMarker

\* C10 happens: Enter has committed a search, which leaves the mode in
\* NAVIGATE with its query and the marker of that query
C10_Witness ==
    /\ active
    /\ state = "NAVIGATE"
    /\ search_query # << >>
    /\ marker = Lower(search_query)

\* C11: while the mode is active the screen has a search marker if and only
\* if the search query is not empty.
C11_MarkerIffQuery ==
    active => (marker # NoMarker <=> search_query # << >>)

\* the keys pressed in a session of searching and then selecting: a few
\* movements, the jump to the next match, the search, two selection modes,
\* the yank and the keys that exit
SearchSelectKeys ==
    {Key("j", "none", "j"), Key("k", "none", "k"), Key("l", "none", "l"),
     Key("n", "none", "n"), Key("/", "none", "/"),
     Key("v", "none", "v"), Key("v", "shift", "V"),
     Key("y", "none", "y"), Key("q", "none", "q"), Key("ESCAPE", "none", "")}

\* a key is pressed in a session of searching and then selecting
KeyPressSearchSelect ==
    \E ev \in (IF InSearch THEN SearchKeys ELSE SearchSelectKeys) : CallKey(ev, TRUE)

\* the mode driven from the keyboard, searching and then selecting
NextSearchSelect ==
    \/ Enter
    \/ Exit
    \/ KeyPressSearchSelect

SpecSearchSelect == Init /\ [][NextSearchSelect]_vars

\* the screen of the record t shows nothing of the mode: no marker, the
\* scroll cursor hidden, the scroll selection cleared
NothingShown(t) ==
    /\ t.marker = NoMarker
    /\ t.scroll_cursor.visible = 0
    /\ t.scroll_selection.type = 0

\* C12: after every way out of the active mode (exit, `q`, Escape, `y`) the
\* screen has no search marker, the scroll cursor is hidden and the scroll
\* selection is cleared.
C12_ExitShowsNothing ==
    active => \A t \in ExitPaths : ~t.active => NothingShown(t)

\* C12 happens: a selection is shown while the marker of a query is
\* installed, and `y` leaves the mode
C12_Witness ==
    /\ active
    /\ state = "SELECT"
    /\ marker # NoMarker
    /\ scroll_cursor.visible # 0
    /\ scroll_selection.type # 0
    /\ ~Pressed(KeyY).active
    /\ NothingShown(Pressed(KeyY))

\* the public entry points called in any order, whether the mode is active
\* or not
ApiEnter == \E tab_ok \in BOOLEAN, silent \in BOOLEAN : CallEnter(tab_ok, silent)

ApiEnterSearch == \E tab_ok \in BOOLEAN : CallEnterSearch(tab_ok)

ApiEnterPromptJump == \E tab_ok \in BOOLEAN : CallEnterPromptJump(tab_ok)

ApiExit == CallExit

\* the keys between the calls: two movements, a selection and the keys that
\* exit, pressed and released; in SEARCH the editing keys, nothing is typed
ApiKeys ==
    {Key("j", "none", "j"), Key("k", "none", "k"), Key("v", "none", "v"),
     Key("q", "none", "q"), Key("ESCAPE", "none", "")}

ApiKey ==
    \E ev \in (IF InSearch THEN SearchEditKeys ELSE ApiKeys), pressed \in BOOLEAN :
        CallKey(ev, pressed)

\* a double click or a release of the left button at the first cell
ApiMouse ==
    \E repeat_count \in {2, -1}, tab_ok \in BOOLEAN :
        CallMouse(GLFW_MOUSE_BUTTON_LEFT, repeat_count,
                  [cell_x |-> 0, cell_y |-> 0], TRUE, tab_ok)

\* the mode driven through its public entry points
NextApi ==
    \/ ApiEnter
    \/ ApiEnterSearch
    \/ ApiEnterPromptJump
    \/ ApiExit
    \/ ApiKey
    \/ ApiMouse

SpecApi == Init /\ [][NextApi]_vars

\* C13: when the mode is active it holds a window and a tab-bar manager;
\* when it is inactive it holds no window, no tab-bar manager and no
\* selection.
C13_OwnsWindowIffActive ==
    /\ active => (window # 0 /\ tab_manager)
    /\ ~active => (window = 0 /\ ~tab_manager /\ sel_mode = "none")

\* a screen whose buffer has two matches of a query, on the second and the
\* third line of the main buffer
InitTwoMatches == InitMode /\ InitScreen(Columns, Lines, HistCount, {3})

\* the mode driven from the keyboard, moving and searching, on that screen
SpecTwoMatches == InitTwoMatches /\ [][Next]_vars

KeySlash == Key("/", "none", "/")
KeyQuestion == Key("/", "shift", "?")
KeyB == Key("b", "none", "b")
KeyN == Key("n", "none", "n")

RECURSIVE PressedAll(_, _)
\* the record after the presses of the keys evs, in their order, from s
PressedAll(s, evs) ==
    IF evs = << >> THEN s
    ELSE PressedAll(handle_key(s, Head(evs), TRUE), Tail(evs))

\* the mode is in NAVIGATE on the main buffer with the cursor at (0, 0), on
\* a line without a match, and the two matches of `qb` are at
\* (first_match, 0) and (first_match + 1, 1)
AtTopOfTwoMatches ==
    /\ active
    /\ state = "NAVIGATE"
    /\ ~is_alt_screen
    /\ content = 3
    /\ history_count > 0
    /\ cursor_abs = 0
    /\ cursor_x = 0

\* the record t is in NAVIGATE with the cursor at (line, x) and a marker
NavigateAt(t, line, x) ==
    /\ t.active
    /\ t.state = "NAVIGATE"
    /\ t.cursor_abs = line
    /\ t.cursor_x = x
    /\ t.marker # NoMarker

\* the search opened with the key open, the query typed and committed, then
\* `n` twice: the cursor is at the match (l1, x1), then at (l2, x2), then
\* back at (l1, x1)
SearchVisits(open, l1, x1, l2, x2) ==
    /\ NavigateAt(PressedAll(Cur, <<open, KeyQ, KeyB, KeyEnter>>), l1, x1)
    /\ NavigateAt(PressedAll(Cur, <<open, KeyQ, KeyB, KeyEnter, KeyN>>), l2, x2)
    /\ NavigateAt(PressedAll(Cur, <<open, KeyQ, KeyB, KeyEnter, KeyN, KeyN>>), l1, x1)

\* C14 as stated: from (0, 0), `/`, the query and Enter end at the first
\* match, `n` moves to the second match and a second `n` wraps to the first.
C14_SlashFindsFirstMatch ==
    AtTopOfTwoMatches =>
        SearchVisits(KeySlash, history_count, 0, history_count + 1, 1)

\* C14 amended: `/` searches backwards, so from (0, 0) the query and Enter
\* end at the last match, `n` moves to the first match and a second `n`
\* wraps to the last; with `?` the search runs forwards and visits the
\* first match, the second, and the first again.
C14_SlashFindsLastMatch ==
    AtTopOfTwoMatches =>
        /\ SearchVisits(KeySlash, history_count + 1, 1, history_count, 0)
        /\ SearchVisits(KeyQuestion, history_count, 0, history_count + 1, 1)

\* C14 happens: the cursor is at (0, 0) in NAVIGATE and the search opened
\* with `/` ends at the last match with the marker of the query
C14_Witness ==
    /\ AtTopOfTwoMatches
    /\ NavigateAt(PressedAll(Cur, <<KeySlash, KeyQ, KeyB, KeyEnter>>),
                  history_count + 1, 1)
    /\ PressedAll(Cur, <<KeySlash, KeyQ, KeyB, KeyEnter>>).marker = <<"q", "b">>

\* the cursor of the record t is at the position of the current state
SameCursor(t) == t.cursor_abs = cursor_abs /\ t.cursor_x = cursor_x

\* the positions find_all lists for the record t
MatchSet(t) == {find_all_matches(t)[i] : i \in 1..Len(find_all_matches(t))}

\* the query has at least two matches and the cursor is on one of them
OnOneOfTwoMatches ==
    /\ active
    /\ Cardinality(MatchSet(Cur)) >= 2
    /\ <<cursor_abs, cursor_x>> \in MatchSet(Cur)

\* C15: with at least two matches and the cursor on one of them, a jump
\* forwards followed by a jump backwards ends at the original cursor.
C15_ForwardThenBackwardReturns ==
    OnOneOfTwoMatches =>
        SameCursor(jump_to_match(jump_to_match(Cur, FALSE), TRUE))

\* position a comes before position b in (line, column) order
Before(a, b) == a[1] < b[1] \/ (a[1] = b[1] /\ a[2] < b[2])

\* the first and the last position of a non-empty set of positions
FirstOf(ms) == CHOOSE m \in ms : \A n \in ms : n = m \/ Before(m, n)

LastOf(ms) == CHOOSE m \in ms : \A n \in ms : n = m \/ Before(n, m)

\* where a jump from cur is to end among the matches ms: the strictly next
\* (or previous) match, or after a wrap the first (or last) match, or cur
\* when there is no match
JumpTarget(ms, cur, backwards) ==
    IF ms = {} THEN cur
    ELSE IF backwards
         THEN (IF \E m \in ms : Before(m, cur)
               THEN LastOf({m \in ms : Before(m, cur)}) ELSE LastOf(ms))
         ELSE (IF \E m \in ms : Before(cur, m)
               THEN FirstOf({m \in ms : Before(cur, m)}) ELSE FirstOf(ms))

\* the cursor of the record t as a position
CursorOf(t) == <<t.cursor_abs, t.cursor_x>>

\* C16: a jump ends at the strictly next match (forwards) or the strictly
\* previous match (backwards) among the matches find_all lists, wraps once to
\* the first or the last match when there is none, and leaves the cursor
\* alone when there is no match.
C16_JumpToAdjacentMatch ==
    (active /\ search_query # << >>) =>
        \A backwards \in BOOLEAN :
            CursorOf(jump_to_match(Cur, backwards))
                = JumpTarget(MatchSet(Cur), CursorOf(Cur), backwards)

\* the positions at which the lower-cased query occurs in the lower-cased
\* lines of the buffer of t, every start position counted
Occurrences(t) ==
    {m \in (0..(total_lines(t) - 1)) \X (0..(t.columns - 1)) :
        OccursAt(LowerLine(t, m[1]), Lower(t.search_query), m[2])}

\* the positions of the list ms are in ascending (line, column) order
Ascending(ms) == \A i \in 1..Len(ms), j \in 1..Len(ms) : i < j => Before(ms[i], ms[j])

\* C17: for a non-empty query, find_all lists as many matches as the query
\* has case-folded occurrences in the lines of the buffer, overlapping ones
\* included, and lists them in ascending (line, column) order.
C17_FindAllCountsOccurrences ==
    (active /\ search_query # << >>) =>
        /\ Len(find_all_matches(Cur)) = Cardinality(Occurrences(Cur))
        /\ Ascending(find_all_matches(Cur))

\* C17 happens: the query `qq` has two overlapping occurrences in a line of
\* upper and lower case, and find_all lists both
C17_Witness ==
    /\ active
    /\ search_query = <<"q", "q">>
    /\ Len(find_all_matches(Cur)) = 2
    /\ find_all_matches(Cur)[1][1] = find_all_matches(Cur)[2][1]
    /\ find_all_matches(Cur)[2][2] = find_all_matches(Cur)[1][2] + 1

RECURSIVE CellsBefore(_, _)
\* the sum of the cell widths of the first k characters of text
CellsBefore(text, k) ==
    IF k = 0 THEN 0 ELSE CellsBefore(text, k - 1) + char_width(text[k])

\* the cell positions of the first characters of the matches in the buffer
\* of the record t
MatchCells(t) ==
    {<<m[1], CellsBefore(get_line_text(t, m[1]), m[2])>> : m \in Occurrences(t)}

\* C18: the positions find_all lists are the cell positions of the first
\* characters of the matches, and a jump that finds a match leaves the cursor
\* on such a position.
C18_MatchColumnsAreCells ==
    (active /\ search_query # << >>) =>
        /\ MatchSet(Cur) = MatchCells(Cur)
        /\ MatchCells(Cur) # {} =>
               \A backwards \in BOOLEAN :
                   CursorOf(jump_to_match(Cur, backwards)) \in MatchCells(Cur)

\* every key event of the model: the keys of the key map, the typed
\* characters and the editing keys of SEARCH
EveryKey == NavigateKeys \cup SelectKeys \cup TypedKeys \cup SearchEditKeys

\* the record after the release of ev in the current state
Released(ev) == handle_key(Cur, ev, FALSE)

\* C19: while the mode is active every key pressed is consumed, in each of
\* the three states, and a key released is consumed and changes nothing.
C19_KeysConsumedReleaseInert ==
    active => \A ev \in EveryKey :
                  /\ Pressed(ev).consumed = "true"
                  /\ Released(ev) = [Cur EXCEPT !.consumed = "true"]

\* C19 happens: in SELECT the press of `j` is consumed and moves the cursor,
\* and its release is consumed and moves nothing
C19_Witness ==
    /\ active
    /\ state = "SELECT"
    /\ Pressed(Key("j", "none", "j")).consumed = "true"
    /\ Pressed(Key("j", "none", "j")).cursor_abs # cursor_abs
    /\ Released(Key("j", "none", "j")).consumed = "true"
    /\ Released(Key("j", "none", "j")).cursor_abs = cursor_abs

\* the record after enter is refused: the tab bar is not available
Refused(silent) == enter(Cur, FALSE, silent)

\* the record after enter is accepted
Accepted(silent) == enter(Cur, TRUE, silent)

\* C20: enter from the inactive state without a tab bar leaves the mode
\* inactive, the screen not paused and its selection as it was, and shows an
\* error if and only if it is not silent; with a tab bar the mode is active
\* in NAVIGATE with an empty query and no selection.
C20_EnterRefusedWithoutTabBar ==
    ~active => \A silent \in BOOLEAN :
        /\ ~Refused(silent).active
        /\ ~Refused(silent).scroll_pause
        /\ Refused(silent).has_selection = has_selection
        /\ Refused(silent).error_shown = ~silent
        /\ Accepted(silent).active
        /\ Accepted(silent).state = "NAVIGATE"
        /\ Accepted(silent).search_query = << >>
        /\ Accepted(silent).sel_mode = "none"
        /\ ~Accepted(silent).error_shown

\* C20 happens: the mode was left in SEARCH with a query; a refused enter
\* shows its error unless silent and leaves the mode inactive, an accepted
\* one starts in NAVIGATE with an empty query
C20_Witness ==
    /\ ~active
    /\ state = "SEARCH"
    /\ search_query # << >>
    /\ ~Refused(FALSE).active
    /\ Refused(FALSE).error_shown
    /\ ~Refused(TRUE).error_shown
    /\ Accepted(FALSE).active
    /\ Accepted(FALSE).state = "NAVIGATE"
    /\ Accepted(FALSE).search_query = << >>

\* the mode entered while inactive and driven by presses and releases of
\* the keys of ApiKeys
NextPhases ==
    \/ Enter
    \/ EnterSearch
    \/ Exit
    \/ ApiKey

SpecPhases == Init /\ [][NextPhases]_vars

\* ------------------------------------------------- entry at a prompt line

\* the lines strictly above the terminal's real cursor that match the prompt
\* pattern, read from the history and the main buffer of the screen
PromptsAboveRealCursor ==
    {l \in 0..(history_count + screen_cursor.y - 1) :
        PromptMatch(IF l < history_count
                    THEN historybuf_line(content, columns, history_count - 1 - l)
                    ELSE main_linebuf_line(content, columns, l - history_count))}

\* the call pauses the screen
Pauses(r) == \E i \in 1..Len(r.log) : r.log[i] = "pause"

\* the call leaves the mode inactive and the screen not paused
StaysOut(r) == ~r.active /\ ~r.scroll_pause /\ ~Pauses(r)

\* the call leaves the mode in NAVIGATE with the cursor at (abs_line, 0)
EntersAt(r, abs_line) ==
    r.active /\ r.state = "NAVIGATE" /\ r.cursor_abs = abs_line /\ r.cursor_x = 0

\* C21 as stated: enter_prompt_jump from the inactive state stays out on the
\* alternate screen or with no prompt line above the real cursor, and in
\* every other case enters NAVIGATE at the nearest prompt line above
C21_PromptJumpEntersOrStaysOut ==
    ~active =>
        \A tab_ok \in BOOLEAN :
            IF ~main_linebuf \/ PromptsAboveRealCursor = {}
            THEN StaysOut(enter_prompt_jump(Cur, tab_ok))
            ELSE EntersAt(enter_prompt_jump(Cur, tab_ok),
                          SetMax(PromptsAboveRealCursor))

\* C21, amended: the entry at the nearest prompt line above happens when the
\* tab bar is visible; when it is not, the call shows the error and the
\* mode stays out
C21_PromptJumpNeedsTabBar ==
    ~active =>
        \A tab_ok \in BOOLEAN :
            IF ~main_linebuf \/ PromptsAboveRealCursor = {}
            THEN StaysOut(enter_prompt_jump(Cur, tab_ok))
                 /\ ~enter_prompt_jump(Cur, tab_ok).error_shown
            ELSE IF tab_ok
            THEN EntersAt(enter_prompt_jump(Cur, tab_ok),
                          SetMax(PromptsAboveRealCursor))
            ELSE StaysOut(enter_prompt_jump(Cur, tab_ok))
                 /\ enter_prompt_jump(Cur, tab_ok).error_shown

\* C21 witness: an inactive mode on the main screen, left once before, with
\* a prompt line above the real cursor, that the call enters at that line
C21_Witness ==
    /\ ~active /\ main_linebuf /\ search_query # << >>
    /\ PromptsAboveRealCursor # {}
    /\ EntersAt(enter_prompt_jump(Cur, TRUE), SetMax(PromptsAboveRealCursor))

\* --------------------------------------------------- dragging with the mouse

\* a screen with a row between its top and its bottom row and two lines of
\* history
InitTall == InitMode /\ InitScreen(Columns, TallLines, TallHist, Contents)

\* every cell of the window
DragCells == {[cell_x |-> x, cell_y |-> y] : x \in 0..(columns - 1), y \in 0..(lines - 1)}

\* the left button is pressed, dragged and released over the window
MouseDrag ==
    \E repeat_count \in {1, 0, -1}, pos \in DragCells, tab_ok \in BOOLEAN :
        /\ active => tab_ok
        /\ CallMouse(GLFW_MOUSE_BUTTON_LEFT, repeat_count, pos, TRUE, tab_ok)

\* the mode driven by drags of the mouse
NextDrag ==
    \/ Enter
    \/ Exit
    \/ MouseDrag

SpecDrag == InitTall /\ [][NextDrag]_vars

\* the top line of the viewport of the screen
ShownTop == IF main_linebuf THEN history_count - scrolled_by ELSE 0

\* the text of line abs_line of the buffer the screen shows
ShownLine(abs_line) ==
    IF ~main_linebuf THEN alt_linebuf_line(content, columns, abs_line)
    ELSE IF abs_line < history_count
    THEN historybuf_line(content, columns, history_count - 1 - abs_line)
    ELSE main_linebuf_line(content, columns, abs_line - history_count)

\* the first cell of the character that covers cell x of row y of the viewport
ShownSnap(x, y) == SnapText(ShownLine(ShownTop + y), x)

\* a left press at cell p and then a drag event at cell d, with the option
\* scroll_mode_mouse enabled and the tab bar visible
PressThenDrag(s, p, d) ==
    handle_mouse(
        handle_mouse(s, GLFW_MOUSE_BUTTON_LEFT, 1, p, TRUE, TRUE),
        GLFW_MOUSE_BUTTON_LEFT, 0, d, TRUE, TRUE)

\* the cells of the rows between the top and the bottom row
InnerCells == {d \in DragCells : d.cell_y # 0 /\ d.cell_y # lines - 1}

\* the mode selects by character from the anchor to the cursor
CharSelection(r, anchor_abs, anchor_x, abs_line, x) ==
    /\ r.active /\ r.state = "SELECT" /\ r.sel_mode = "char"
    /\ r.sel_start_abs = anchor_abs /\ r.sel_start_x = anchor_x
    /\ r.cursor_abs = abs_line /\ r.cursor_x = x

\* C22 as stated: from the inactive mode, a press at (px, py) and a drag to
\* (dx, dy) off the top and bottom rows select by character from
\* (viewport_top + py, px) to (viewport_top + dy, dx)
C22_DragSelectsBetweenCells ==
    ~active =>
        \A p \in DragCells, d \in InnerCells :
            CharSelection(PressThenDrag(Cur, p, d),
                          ShownTop + p.cell_y, p.cell_x,
                          ShownTop + d.cell_y, d.cell_x)

\* C22, amended: the anchor and the cursor are at the first cell of the
\* character under the press and under the drag
C22_DragSelectsBetweenCharacters ==
    ~active =>
        \A p \in DragCells, d \in InnerCells :
            CharSelection(PressThenDrag(Cur, p, d),
                          ShownTop + p.cell_y, ShownSnap(p.cell_x, p.cell_y),
                          ShownTop + d.cell_y, ShownSnap(d.cell_x, d.cell_y))

\* C22 witness: an inactive mode over a viewport scrolled back by one line,
\* where a press on the bottom row and a drag to the second cell of
\* a wide character of the middle row select from the press to the first
\* cell of that character
C22_Witness ==
    /\ ~active /\ main_linebuf /\ scrolled_by = 1 /\ content = 1
    /\ ShownSnap(1, 1) = 0
    /\ CharSelection(
           PressThenDrag(Cur, [cell_x |-> 2, cell_y |-> 2], [cell_x |-> 1, cell_y |-> 1]),
           ShownTop + 2, 2, ShownTop + 1, 0)

\* ------------------------------------------------------ the other buttons

\* the call r changed nothing of the mode and the screen, showed no error
\* and put nothing on the clipboard
NothingChanged(r) == [r EXCEPT !.consumed = "none"] = Cur

\* C23: an event of a button other than the left one changes nothing of the
\* mode and the screen, whatever its repeat count and the position of the
\* mouse, and is consumed exactly while the mode is active
C23_OtherButtonsInert ==
    \A button \in MouseButtons \ {GLFW_MOUSE_BUTTON_LEFT},
       repeat_count \in RepeatCounts, pos \in MouseCells \cup {NoPosition},
       mouse_opt \in BOOLEAN, tab_ok \in BOOLEAN :
        /\ NothingChanged(handle_mouse(Cur, button, repeat_count, pos, mouse_opt, tab_ok))
        /\ handle_mouse(Cur, button, repeat_count, pos, mouse_opt, tab_ok).consumed
               = (IF active THEN "true" ELSE "false")

\* C23 witness: a selection dragged with the left button, where a press of
\* another button on a cell away from the cursor is consumed
C23_Witness ==
    /\ active /\ state = "SELECT" /\ drag_active /\ drag_started
    /\ cursor_abs # viewport_top(Cur)
    /\ handle_mouse(Cur, "right", 1, [cell_x |-> 0, cell_y |-> 0], TRUE, TRUE).consumed
           = "true"

\* ------------------------------------------------- a press while active

\* a left press and a drag event at cell pos while the mode is active
LeftPress(s, pos) == handle_mouse(s, GLFW_MOUSE_BUTTON_LEFT, 1, pos, TRUE, TRUE)

LeftDrag(s, pos) == handle_mouse(s, GLFW_MOUSE_BUTTON_LEFT, 0, pos, TRUE, TRUE)

\* the press r of cell pos ended the selection, put the cursor on the
\* character under the cell and armed the drag
PressedAt(r, pos) ==
    /\ (state = "SELECT" => (r.state = "NAVIGATE" /\ r.sel_mode = "none"))
    /\ r.cursor_abs = Clamp(ShownTop + pos.cell_y, 0, total_lines(Cur) - 1)
    /\ r.cursor_x = SnapText(ShownLine(r.cursor_abs), Clamp(pos.cell_x, 0, columns - 1))
    /\ r.drag_active /\ ~r.drag_started

\* the drag event r selects by character from the cursor of the press p, and
\* so does every drag event after it
AnchoredAtPress(r, p) ==
    /\ r.state = "SELECT" /\ r.sel_mode = "char"
    /\ r.sel_start_abs = p.cursor_abs /\ r.sel_start_x = p.cursor_x
    /\ \A pos \in MouseCells :
           /\ LeftDrag(r, pos).sel_start_abs = p.cursor_abs
           /\ LeftDrag(r, pos).sel_start_x = p.cursor_x

\* what happens between a press and the next drag event: nothing, or the
\* press of a key that moves the cursor
KeysBeforeDrag == {<< >>, <<Key("j", "none", "j")>>, <<Key("k", "none", "k")>>}

\* C24: while active, a left press ends the selection, moves the cursor to
\* the clamped and snapped cell of the press and arms the drag; the next drag
\* event starts a selection by character anchored at the position of the
\* press, and no later drag event moves the anchor
C24_PressArmsDragAtPress ==
    active =>
        \A pos \in MouseCells :
            /\ PressedAt(LeftPress(Cur, pos), pos)
            /\ \A evs \in KeysBeforeDrag, to \in MouseCells :
                   AnchoredAtPress(
                       LeftDrag(PressedAll(LeftPress(Cur, pos), evs), to),
                       LeftPress(Cur, pos))

\* ------------------------------------------------ scrolling at the edges

\* scrolled_by after a drag event at row cell_y of the main buffer: one line
\* further back from the top row, one line less from the bottom row
EdgeScrolled(cell_y) ==
    IF cell_y = 0 /\ scrolled_by < history_count THEN scrolled_by + 1
    ELSE IF cell_y = lines - 1 /\ scrolled_by > 0 THEN scrolled_by - 1
    ELSE scrolled_by

\* a drag event at cell pos, armed by a press while active or entering the
\* mode when it is not active
DragEvent(pos) == handle_mouse(Cur, GLFW_MOUSE_BUTTON_LEFT, 0, pos, TRUE, TRUE)

\* C25: an armed drag event on the main buffer scrolls back by exactly one
\* line from the top row while history is left above, forward by exactly one
\* line from the bottom row while scrolled back, and not at all from the rows
\* between; no drag event scrolls on the alternate buffer
C25_DragScrollsOneLineAtEdges ==
    (~active \/ drag_active) =>
        \A pos \in DragCells :
            DragEvent(pos).scrolled_by
                = (IF main_linebuf THEN EdgeScrolled(pos.cell_y) ELSE scrolled_by)

\* C25 witness: a drag under way on the main buffer, one line scrolled back
\* with one more line of history above, that scrolls to either side from the
\* two edges and stays from the row between
C25_Witness ==
    /\ active /\ drag_active /\ drag_started /\ state = "SELECT"
    /\ main_linebuf /\ scrolled_by = 1 /\ history_count = 2
    /\ DragEvent([cell_x |-> 1, cell_y |-> 0]).scrolled_by = 2
    /\ DragEvent([cell_x |-> 1, cell_y |-> lines - 1]).scrolled_by = 0
    /\ DragEvent([cell_x |-> 1, cell_y |-> 1]).scrolled_by = 1

\* --------------------------------------------------- top and bottom jumps

KeyG == Key("g", "none", "g")
KeyShiftG == Key("g", "shift", "G")

\* the mode moves the cursor: it is in NAVIGATE or in SELECT
Moving == active /\ state \in {"NAVIGATE", "SELECT"}

\* C26: `G` puts the cursor at (total_lines - 1, 0) with the last line on
\* the bottom row of the viewport (scrolled_by = 0 on the main buffer), and
\* `g` puts it at (0, 0) with line 0 on the top row
C26_JumpsToBottomAndTop ==
    Moving =>
        /\ Pressed(KeyShiftG).cursor_abs = total_lines(Cur) - 1
        /\ Pressed(KeyShiftG).cursor_x = 0
        /\ viewport_top(Pressed(KeyShiftG)) + lines - 1 = total_lines(Cur) - 1
        /\ (main_linebuf => Pressed(KeyShiftG).scrolled_by = 0)
        /\ Pressed(KeyG).cursor_abs = 0
        /\ Pressed(KeyG).cursor_x = 0
        /\ viewport_top(Pressed(KeyG)) = 0

\* C26 witness: a selection on the main buffer, scrolled back and with the
\* cursor off column 0: `G` scrolls to the end, and `g` scrolls back to the
\* top after a `j` that scrolled away from it
C26_Witness ==
    /\ Moving /\ state = "SELECT" /\ main_linebuf /\ cursor_x > 0
    /\ scrolled_by > 0 /\ Pressed(KeyShiftG).scrolled_by = 0
    /\ Pressed(KeyShiftG).cursor_abs = history_count + lines - 1
    /\ viewport_top(Pressed(Key("j", "none", "j"))) > 0
    /\ viewport_top(PressedAll(Cur, <<Key("j", "none", "j"), KeyG>>)) = 0

\* ------------------------------------------- moving over a wide character

\* a wide character of text has its first cell at cell x
WideStartsAt(text, x) ==
    \E k \in 1..Len(text) : char_width(text[k]) = 2 /\ CellsBefore(text, k - 1) = x

\* the text of the line the cursor is on
CursorLine == get_line_text(Cur, cursor_abs)

RightKeys == {Key("l", "none", "l"), Key("RIGHT", "none", "")}

LeftKeys == {Key("h", "none", "h"), Key("LEFT", "none", "")}

\* C27: from the first cell of a wide character `l` and Right move the
\* cursor by 2 cells, past the trailing cell; from the cell after a wide
\* character `h` and Left move it to the first cell of that character
C27_WideCharacterIsOneStep ==
    Moving =>
        /\ WideStartsAt(CursorLine, cursor_x) =>
               \A ev \in RightKeys :
                   /\ Pressed(ev).cursor_x = cursor_x + 2
                   /\ Pressed(ev).cursor_abs = cursor_abs
        /\ WideStartsAt(CursorLine, cursor_x - 2) =>
               \A ev \in LeftKeys :
                   /\ Pressed(ev).cursor_x = cursor_x - 2
                   /\ Pressed(ev).cursor_abs = cursor_abs

\* C27 witness: the cursor on a wide character at cell 0 that a narrow
\* character follows: `l` lands on cell 2 and `h` from there back on cell 0
C27_Witness ==
    /\ Moving /\ cursor_x = 0 /\ CursorLine = <<"W", "q">>
    /\ Pressed(Key("l", "none", "l")).cursor_x = 2
    /\ PressedAll(Cur, <<Key("l", "none", "l"), Key("h", "none", "h")>>).cursor_x = 0

\* ------------------------------------------------------- block selections

\* the characters of text whose first cell is one of the cells a..b
CellsText(text, a, b) ==
    LET ks == {k \in 1..Len(text) : CellsBefore(text, k - 1) \in a..b}
    IN IF ks = {} THEN << >> ELSE SubSeq(text, SetMin(ks), SetMax(ks))

\* the lines from..to of the buffer, each cut to the cells a..b and
\* right-trimmed
BlockLines(from, to, a, b) ==
    [i \in 1..(to - from + 1) |->
        RStrip(CellsText(get_line_text(Cur, from + i - 1), a, b))]

\* the text of the block between the anchor and the cursor
BlockText ==
    JoinLines(BlockLines(Min2(sel_start_abs, cursor_abs),
                         Max2(sel_start_abs, cursor_abs),
                         Min2(sel_start_x, cursor_x),
                         Max2(sel_start_x, cursor_x)))

\* the mode selects a block
InBlock == active /\ state = "SELECT" /\ sel_mode = "block"

\* C28: in block mode the renderer has a selection of type 3 whose x corners
\* are the anchor's and the cursor's columns as they are, and the text that
\* is copied is, line by line from the upper to the lower of the two lines,
\* the cells from the smaller to the larger column, right-trimmed and joined
\* with newlines
C28_BlockCornersAndText ==
    InBlock =>
        /\ scroll_selection.type = 3
        /\ scroll_selection.sx = sel_start_x
        /\ scroll_selection.ex = cursor_x
        /\ get_selected_text(Cur) = BlockText
        /\ Pressed(KeyY).clipboard = (IF BlockText = << >> THEN << >> ELSE <<BlockText>>)

\* ------------------------------------------- char selections on one line

\* the mode selects by character
InChar == active /\ state = "SELECT" /\ sel_mode = "char"

\* the right-trimmed slice of the cursor line from the smaller to the larger
\* of the anchor's and the cursor's cells, both included
OneLineText ==
    RStrip(CellsText(CursorLine, Min2(sel_start_x, cursor_x), Max2(sel_start_x, cursor_x)))

\* C29: the text of a char selection within one line is the right-trimmed
\* slice of the line from the smaller to the larger of the two cells, both
\* included, whichever of anchor and cursor comes first, with a wide
\* character that starts at the end cell taken whole
C29_OneLineSliceInclusive ==
    (InChar /\ sel_start_abs = cursor_abs) =>
        /\ get_selected_text(Cur) = OneLineText
        /\ Pressed(KeyY).clipboard = (IF OneLineText = << >> THEN << >> ELSE <<OneLineText>>)

\* C29 witness: a selection with the cursor before the anchor, from a wide
\* character at the end cell back over a blank, whose text is copied whole
C29_Witness ==
    /\ InChar /\ sel_start_abs = cursor_abs /\ cursor_x < sel_start_x
    /\ CursorLine = <<" ", "W">> /\ sel_start_x = 1
    /\ Pressed(KeyY).clipboard = << <<" ", "W">> >>

\* ------------------------------------------------------ soft-wrapped lines

\* the mode driven from the keyboard, moving and selecting, over the screen
\* whose history ends with a wrapped line
SpecWrap == InitTwoMatches /\ [][NextSelect]_vars

\* line abs_line of the buffer the screen shows is the continuation of the
\* line before it, by the flag the screen keeps for that line
ShownContinued(abs_line) ==
    /\ abs_line > 0
    /\ IF ~main_linebuf THEN linebuf_is_continued(content, FALSE, abs_line)
       ELSE IF abs_line < history_count
       THEN historybuf_is_continued(content, history_count - 1 - abs_line)
       ELSE linebuf_is_continued(content, TRUE, abs_line - history_count)

\* the selected part of line i of a char selection from (start_abs, start_x)
\* to (end_abs, end_x), right-trimmed
SelectedPart(i, start_abs, start_x, end_abs, end_x) ==
    RStrip(CellsText(ShownLine(i),
                     IF i = start_abs THEN start_x ELSE 0,
                     IF i = end_abs THEN end_x ELSE 2 * columns))

RECURSIVE WrapJoined(_, _, _, _, _)
\* the selected parts of the lines i..end_abs, each after the first one
\* preceded by one newline unless the line continues the line before it
WrapJoined(i, start_abs, start_x, end_abs, end_x) ==
    IF i > end_abs THEN << >>
    ELSE (IF i > start_abs /\ ~ShownContinued(i) THEN <<NL>> ELSE << >>)
         \o SelectedPart(i, start_abs, start_x, end_abs, end_x)
         \o WrapJoined(i + 1, start_abs, start_x, end_abs, end_x)

\* the text of the char selection between the anchor and the cursor
WrappedText ==
    IF sel_start_abs < cursor_abs
    THEN WrapJoined(sel_start_abs, sel_start_abs, sel_start_x, cursor_abs, cursor_x)
    ELSE WrapJoined(cursor_abs, cursor_abs, cursor_x, sel_start_abs, sel_start_x)

\* C30: in the text of a char selection of several lines, two adjacent lines
\* are joined without a newline when the later one is the soft-wrap
\* continuation of the earlier one and with exactly one newline otherwise,
\* also across the boundary of the history and the live lines
C30_NewlineIffNotContinued ==
    (InChar /\ sel_start_abs # cursor_abs) => get_selected_text(Cur) = WrappedText

\* ------------------------------------------------------------ the clipboard

KeyShiftY == Key("y", "shift", "Y")

\* the keys that yank in SELECT
YankKeys == {KeyY, KeyShiftY, KeyEscape}

\* the selection is being made
Selecting == active /\ state = "SELECT"

\* the call r set the clipboard at most once, and then with the text of the
\* selection as it was before the call
CopiedSelection(r) ==
    r.clipboard = << >> \/ r.clipboard = <<get_selected_text(Cur)>>

\* a left-button event of the mouse at cell pos
LeftEvent(repeat_count, pos) ==
    handle_mouse(Cur, GLFW_MOUSE_BUTTON_LEFT, repeat_count, pos, TRUE, TRUE)

\* C31: a yank sets the clipboard at most once, with the text of the
\* selection, and no other key and no mouse event sets it; `y` and Escape in
\* SELECT leave the mode, and `Y` leaves it active in NAVIGATE with no
\* selection, none shown, and the cursor and the viewport where they were
C31_ClipboardSetOnlyByYank ==
    active =>
        /\ \A ev \in EveryKey :
               IF Selecting /\ ev \in YankKeys
               THEN CopiedSelection(Pressed(ev))
               ELSE Pressed(ev).clipboard = << >>
        /\ \A repeat_count \in RepeatCounts, pos \in MouseCells \cup {NoPosition} :
               LeftEvent(repeat_count, pos).clipboard = << >>
        /\ Selecting =>
               /\ ~Pressed(KeyY).active
               /\ ~Pressed(KeyEscape).active
               /\ Pressed(KeyShiftY).active
               /\ Pressed(KeyShiftY).state = "NAVIGATE"
               /\ Pressed(KeyShiftY).sel_mode = "none"
               /\ Pressed(KeyShiftY).scroll_selection = NoSelection
               /\ SameCursor(Pressed(KeyShiftY))
               /\ Pressed(KeyShiftY).scrolled_by = scrolled_by

\* C31 witness: a selection of several lines whose text `Y` copies in one
\* call, staying in the mode, and `y` copies leaving it
C31_Witness ==
    /\ Selecting /\ sel_start_abs # cursor_abs /\ get_selected_text(Cur) # << >>
    /\ Pressed(KeyShiftY).clipboard = <<get_selected_text(Cur)>>
    /\ Pressed(KeyShiftY).active
    /\ Pressed(KeyY).clipboard = <<get_selected_text(Cur)>>
    /\ ~Pressed(KeyY).active

\* ------------------------------------------------------ the alternate screen

\* the mode was entered on the alternate screen
EnteredOnAlt == active /\ is_alt_screen

\* the call r asked the screen for no scroll and left scrolled_by as it was
NoScroll(r) == r.scroll_calls = 0 /\ r.scrolled_by = scrolled_by

\* C32: in a mode entered on the alternate screen the viewport is at top 0
\* and the buffer is the live lines alone, and no key, no mouse event and no
\* exit asks the screen to scroll
C32_AltScreenNeverScrolls ==
    EnteredOnAlt =>
        /\ viewport_top(Cur) = 0
        /\ total_lines(Cur) = lines
        /\ \A ev \in EveryKey :
               NoScroll(Pressed(ev)) /\ viewport_top(Pressed(ev)) = 0
        /\ \A repeat_count \in RepeatCounts, pos \in MouseCells \cup {NoPosition} :
               NoScroll(LeftEvent(repeat_count, pos))
        /\ NoScroll(exit(Cur))

\* C32 witness: a drag under way on the alternate screen with the cursor
\* below the top row, which a drag event on the top row takes to line 0
\* without a scroll
C32_Witness ==
    /\ EnteredOnAlt /\ state = "SELECT" /\ drag_active /\ cursor_abs > 0
    /\ LeftEvent(0, [cell_x |-> 0, cell_y |-> 0]).cursor_abs = 0
    /\ NoScroll(LeftEvent(0, [cell_x |-> 0, cell_y |-> 0]))
    /\ NoScroll(exit(Cur))

\* --------------------------------------------------------- the word motions

KeyW == Key("w", "none", "w")
KeyE == Key("e", "none", "e")

\* character k of line l is the first of a group of word characters or of
\* punctuation: it is not whitespace and no character of its class is
\* before it on the line
StartsGroup(l, k) ==
    /\ char_class(ShownLine(l)[k]) # 0
    /\ k > 1 => char_class(ShownLine(l)[k - 1]) # char_class(ShownLine(l)[k])

\* the <<line, cell>> positions where a group starts
GroupStarts ==
    {<<l, c>> \in (0..(total_lines(Cur) - 1)) \X (0..(columns - 1)) :
        \E k \in 1..Len(ShownLine(l)) :
            /\ CellsBefore(ShownLine(l), k - 1) = c
            /\ StartsGroup(l, k)}

\* position a is before position b in reading order
Earlier(a, b) == a[1] < b[1] \/ (a[1] = b[1] /\ a[2] < b[2])

\* the group starts after the cursor
StartsAfterCursor == {g \in GroupStarts : Earlier(<<cursor_abs, cursor_x>>, g)}

\* the first of a set of positions in reading order
First(S) == CHOOSE a \in S : \A b \in S : a = b \/ Earlier(a, b)

\* C33: `w` puts the cursor on the first cell of the next group of word
\* characters or punctuation after it in reading order, on its line or on a
\* later one, column 0 of a later line included
C33_WordStartIsNextGroup ==
    (Moving /\ StartsAfterCursor # {}) =>
        /\ Pressed(KeyW).cursor_abs = First(StartsAfterCursor)[1]
        /\ Pressed(KeyW).cursor_x = First(StartsAfterCursor)[2]

\* the case of C33: the cursor is on the last group of a line and the next
\* line begins with a group, where `w` stops at column 0
C33_Witness ==
    /\ Moving /\ StartsAfterCursor # {}
    /\ char_class(ShownLine(cursor_abs)[1]) # 0
    /\ First(StartsAfterCursor) = <<cursor_abs + 1, 0>>
    /\ Pressed(KeyW).cursor_abs = cursor_abs + 1
    /\ Pressed(KeyW).cursor_x = 0

\* ------------------------------------------------- the pause of the screen

\* C34: after any sequence of calls of the entry points the screen is paused
\* exactly when the mode is active; once the mode is inactive the screen is
\* not left paused
C34_PausedIffActive == scroll_pause <=> active

\* --------------------------------------------- the state and the selection

\* the renderer draws no selection
NothingSelected == scroll_selection.type = 0

\* in the record r the state is SELECT exactly when a selection mode is
\* set, and outside SELECT the renderer draws no selection
StateMatchesSelection(r) ==
    r.active =>
        /\ (r.state = "SELECT") <=> (r.sel_mode # "none")
        /\ r.state # "SELECT" => r.scroll_selection.type = 0

\* C35: while the mode is active, after every key and after every event of
\* the left button (press, double and triple press, drag, release, and a
\* drag that follows a press) the state is SELECT exactly when a selection
\* mode is set, and in NAVIGATE and SEARCH the selection of the renderer is
\* of type 0
C35_SelectIffSelectionMode ==
    active =>
        /\ StateMatchesSelection(Cur)
        /\ \A ev \in EveryKey : StateMatchesSelection(Pressed(ev))
        /\ \A repeat_count \in RepeatCounts, pos \in MouseCells :
               StateMatchesSelection(LeftEvent(repeat_count, pos))
        /\ \A p \in MouseCells, d \in MouseCells :
               StateMatchesSelection(PressThenDrag(Cur, p, d))

\* the case of C35: in SELECT with a selection drawn `/` starts a search
\* without a selection mode and with no selection drawn, and a press and a
\* drag in that search start a selection by character
C35_Witness ==
    /\ active /\ state = "SELECT" /\ ~NothingSelected
    /\ Pressed(KeySlash).state = "SEARCH"
    /\ Pressed(KeySlash).sel_mode = "none"
    /\ Pressed(KeySlash).scroll_selection.type = 0
    /\ \E p \in MouseCells, d \in MouseCells :
           /\ PressThenDrag(Pressed(KeySlash), p, d).state = "SELECT"
           /\ PressThenDrag(Pressed(KeySlash), p, d).sel_mode = "char"

\* ----------------------------------------------------- leaving with Escape

\* the record after two presses of Escape in the current state
EscapedTwice == PressedAll(Cur, <<KeyEscape, KeyEscape>>)

\* C36: in every active state two presses of Escape in a row leave the mode
\* inactive and the screen not paused: SEARCH goes to NAVIGATE and then out,
\* NAVIGATE and SELECT are left on the first press
C36_TwoEscapesLeave ==
    active =>
        /\ ~EscapedTwice.active /\ ~EscapedTwice.scroll_pause
        /\ state = "SEARCH" =>
              (Pressed(KeyEscape).active /\ Pressed(KeyEscape).state = "NAVIGATE")
        /\ state # "SEARCH" =>
              (~Pressed(KeyEscape).active /\ ~Pressed(KeyEscape).scroll_pause)

\* the case of C36: in SEARCH with a query typed the first Escape goes back
\* to NAVIGATE and the second one leaves the mode
C36_Witness ==
    /\ active /\ state = "SEARCH" /\ search_query # << >> /\ scroll_pause
    /\ Pressed(KeyEscape).active
    /\ Pressed(KeyEscape).state = "NAVIGATE"
    /\ ~EscapedTwice.active /\ ~EscapedTwice.scroll_pause

\* ------------------------------------------------- the selection mode keys

\* C37: in SELECT every press of `V` and of Ctrl+V changes the selection
\* mode: `V` in line mode gives a mode other than line and Ctrl+V in block
\* mode a mode other than block
C37_ModeKeysAlwaysChangeMode ==
    Selecting =>
        /\ Pressed(KeyShiftV).sel_mode # sel_mode
        /\ Pressed(KeyCtrlV).sel_mode # sel_mode

\* ------------------------------------------------------------- the swap

KeyO == Key("o", "none", "o")

\* the record t has the anchor at (anchor_abs, anchor_x) and the cursor at
\* (abs_line, x)
Spans(t, anchor_abs, anchor_x, abs_line, x) ==
    /\ t.sel_start_abs = anchor_abs /\ t.sel_start_x = anchor_x
    /\ t.cursor_abs = abs_line /\ t.cursor_x = x

\* C38: in SELECT `o` puts the anchor where the cursor was and the cursor
\* where the anchor was, in each selection mode; a second `o` puts both back,
\* and the text of the selection is the same before and after `o`
C38_SwapExchangesEnds ==
    Selecting =>
        /\ Spans(Pressed(KeyO), cursor_abs, cursor_x, sel_start_abs, sel_start_x)
        /\ Spans(PressedAll(Cur, <<KeyO, KeyO>>),
                 sel_start_abs, sel_start_x, cursor_abs, cursor_x)
        /\ Pressed(KeyO).sel_mode = sel_mode
        /\ get_selected_text(Pressed(KeyO)) = get_selected_text(Cur)

\* ------------------------------------------- word motions on a blank screen

\* the mostly blank screen, three lines high under two lines of history
InitBlank == InitMode /\ InitScreen(Columns, TallLines, TallHist, {4})

\* the keys pressed on that screen: the word motions, the steps by a cell
\* and by a line, `v` and `q`
WordKeys ==
    {KeyW, KeyE, KeyB, KeyV, KeyQ,
     Key("j", "none", "j"), Key("k", "none", "k"),
     Key("h", "none", "h"), Key("l", "none", "l")}

KeyPressWords == \E ev \in WordKeys : CallKey(ev, TRUE)

NextWords ==
    \/ Enter
    \/ Exit
    \/ KeyPressWords

SpecWords == InitBlank /\ [][NextWords]_vars

\* character k of line l is the last of a group of word characters or of
\* punctuation
EndsGroup(l, k) ==
    /\ char_class(ShownLine(l)[k]) # 0
    /\ k < Len(ShownLine(l)) =>
           char_class(ShownLine(l)[k + 1]) # char_class(ShownLine(l)[k])

\* the <<line, cell>> positions where a group ends
GroupEnds ==
    {<<l, c>> \in (0..(total_lines(Cur) - 1)) \X (0..(columns - 1)) :
        \E k \in 1..Len(ShownLine(l)) :
            /\ CellsBefore(ShownLine(l), k - 1) = c
            /\ EndsGroup(l, k)}

EndsAfterCursor == {g \in GroupEnds : Earlier(<<cursor_abs, cursor_x>>, g)}

StartsBeforeCursor == {g \in GroupStarts : Earlier(g, <<cursor_abs, cursor_x>>)}

\* the key was handled and left the cursor and the viewport where they were
Unmoved(r) ==
    /\ r.consumed = "true"
    /\ r.cursor_abs = cursor_abs /\ r.cursor_x = cursor_x
    /\ r.scrolled_by = scrolled_by
    /\ r.scroll_calls = 0

\* C39: `w`, `e` and `b` are handled at every cursor position, blank and
\* empty lines in the direction of travel included, and when no group starts
\* after the cursor (`w`), ends after it (`e`) or starts before it (`b`) the
\* cursor and the viewport are left where they were
C39_WordMotionsEndAndStay ==
    Moving =>
        /\ \A ev \in {KeyW, KeyE, KeyB} : Pressed(ev).consumed = "true"
        /\ StartsAfterCursor = {} => Unmoved(Pressed(KeyW))
        /\ EndsAfterCursor = {} => Unmoved(Pressed(KeyE))
        /\ StartsBeforeCursor = {} => Unmoved(Pressed(KeyB))

\* the case of C39: on the mostly blank screen the cursor is on the only
\* word, blank and empty lines are above and below it, and each of the three
\* motions leaves the cursor there
C39_Witness ==
    /\ Moving /\ content = 4 /\ ~is_alt_screen
    /\ cursor_abs = history_count /\ cursor_x = 1
    /\ ShownLine(cursor_abs - 1) = <<" ", " ">> /\ ShownLine(cursor_abs - 2) = << >>
    /\ ShownLine(cursor_abs + 1) = <<" ">> /\ ShownLine(cursor_abs + 2) = << >>
    /\ StartsAfterCursor = {} /\ EndsAfterCursor = {} /\ StartsBeforeCursor = {}
    /\ \A ev \in {KeyW, KeyE, KeyB} : Unmoved(Pressed(ev))

====
